---- MODULE Spec2Model ----
(***************************************************************************)
(* Model of the decision core of bot_trading:                              *)
(*   - core/llm_resilience.py : CircuitBreaker, call_llm_with_retry,       *)
(*                              reset_circuit_breaker                      *)
(*   - core/judge.py          : TheJudge.evaluate and its stages           *)
(* Spec      : the breaker under one call_llm_with_retry caller at a time. *)
(* ConcSpec  : the shared breaker used by concurrent call_llm_with_retry   *)
(*             coroutines on one asyncio event loop.                       *)
(* JudgeSpec : one TheJudge.evaluate call, stage by stage.                 *)
(***************************************************************************)
EXTENDS Integers, Sequences, FiniteSets, TLC

(***************************************************************************)
(* Bounds of the model                                                     *)
(***************************************************************************)
MaxTime == 4               \* the clock runs 0..MaxTime (seconds)
MaxThreshold == 3          \* failure_threshold and success_threshold are in 1..MaxThreshold
MaxRetriesArg == 2         \* the max_retries argument is in 0..MaxRetriesArg
RecoveryTimeout == 2       \* the recovery_timeout argument (seconds)

Callers == {1, 2}          \* coroutines sharing llm_circuit_breaker
NoCaller == 0
None == -1                 \* Python None for last_failure_time

VARIABLES
    \* ---- CircuitBreaker fields (llm_resilience.py 44-51)
    failure_threshold, recovery_timeout, success_threshold,
    cbState, failure_count, success_count, last_failure_time,
    \* ---- environment
    now,            \* datetime.now(), whole seconds
    running,        \* the coroutine the event loop is executing, or NoCaller
    active,         \* the callers that exist
    \* ---- call_llm_with_retry frames, one per caller
    max_retries,    \* the max_retries argument the callers pass
    pc, attempt, last_exception, exc, tmp, result,
    \* ---- history (observation only)
    calls,          \* invocations of the wrapped provider function in this frame
    attempts,       \* passes through llm_circuit_breaker.call_async in this frame
    wins,           \* successful provider completions in this frame
    pre,            \* breaker fields when the running segment began
    ref,            \* breaker fields as given by applying each admission and each
                    \* outcome atomically, in the order they began
    streakStart,    \* breaker state when the current run of failures began
    admitted,       \* breaker state in which each caller's call in flight was admitted
    \* ---- TheJudge.evaluate frame (JudgeSpec)
    jpc, jin, jt1, jt3, jsignal, jraised, jran,
    \* ---- TheJudge._calculate_safe_lot frame (SizerSpec)
    spc,            \* position in _calculate_safe_lot
    sin,            \* its arguments, the stored account and the trading mode
    sraw,           \* the local raw_lot: thousandths of a lot, and whether a float
                    \* product left it off the decimal grid
    sresult,        \* the local result (490)
    sexc,           \* the exception in flight
    \* ---- Arbitrator.judge_debate frame (ArbSpec)
    apc,            \* position in judge_debate
    ain,            \* pro / con confidence, tier-1 strength (thousandths), veto
    aout,           \* debate_winner, debate_score (thousandths), final_score
                    \* (millionths) and action
    \* ---- Structured{Pro,Con}Agent.analyze_structured frame (AgentSpec)
    gpc,            \* position in analyze_structured
    gin,            \* the agent, market_data and tier1_context
    gout,           \* the AgentAnalysis returned
    \* ---- Tier1MathEngine.analyze frame and the Tier1Result (Tier1Spec, VetoSpec)
    tpc,            \* position in analyze, then "result"
    tin,            \* market_data: candles, ma_fast, ma_slow, ma_trend
    tres,           \* the Tier1Result
    tveto,          \* what should_veto_buy / should_veto_sell answered
    texc,           \* the exception analyze raised
    \* ---- TheJudge._arbitrate_agents frame (ArbitrateSpec)
    rpc,            \* position in _arbitrate_agents
    rin,            \* data.symbol, how the chart lookup goes, the provider's reply
    rout,           \* the (score, reason) returned
    rexc            \* the exception in flight

bvars == <<failure_threshold, recovery_timeout, success_threshold,
           cbState, failure_count, success_count, last_failure_time>>
fvars == <<pc, max_retries, attempt, last_exception, exc, tmp, result>>
hvars == <<calls, attempts, wins, pre, ref, streakStart, admitted>>
jvars == <<jpc, jin, jt1, jt3, jsignal, jraised, jran>>
svars == <<spc, sin, sraw, sresult, sexc>>
avars == <<apc, ain, aout>>
gvars == <<gpc, gin, gout>>
tvars == <<tpc, tin, tres, tveto, texc>>
rvars == <<rpc, rin, rout, rexc>>
pvars == <<svars, avars, gvars, tvars, rvars>>
vars == <<bvars, now, running, active, fvars, hvars, jvars, pvars>>

(***************************************************************************)
(* Exceptions and their text                                               *)
(***************************************************************************)
NoExc == "none"
CircuitOpenError == "CircuitOpen"     \* Exception("Circuit Breaker OPEN: ...")
TimeoutError == "Timeout"             \* asyncio.TimeoutError from wait_for
ProviderErrors == {"ErrA"}    \* exceptions raised by llm_func
Failures == ProviderErrors \cup {TimeoutError}
Responses == {"r1", "r2"}             \* values returned by llm_func

\* str(e): asyncio.TimeoutError carries no message
Str(e) ==
    CASE e = TimeoutError -> ""
      [] e = CircuitOpenError -> "Circuit Breaker OPEN: LLM calls blocked."
      [] e = NoExc -> "None"
      [] OTHER -> e

Breaker == [state |-> cbState, fc |-> failure_count, sc |-> success_count]
NoSnap == [state |-> "-", fc |-> 0, sc |-> 0]

(***************************************************************************)
(* Event loop: a coroutine runs from one await to the next without         *)
(* interleaving; another coroutine is resumed only when none is running.   *)
(***************************************************************************)
RunnablePreemptive(p, resuming) == TRUE
Runnable(p, resuming) == IF resuming THEN running = NoCaller ELSE running = p

(***************************************************************************)
(* CircuitBreaker                                                          *)
(***************************************************************************)
\* _should_attempt_reset (98-104)
ShouldAttemptReset ==
    IF last_failure_time = None THEN TRUE
    ELSE (now - last_failure_time) >= recovery_timeout

\* the threshold test of _on_failure (123)
TripsStrict(fc) == fc > failure_threshold
Trips(fc) == fc >= failure_threshold

\* the threshold test of _on_success (112)
RecoveredStrict(sc) == sc > success_threshold
Recovered(sc) == sc >= success_threshold

\* reference semantics: each outcome applied as one atomic step
RefOnFailure(b) ==
    [state |-> IF b.fc + 1 >= failure_threshold THEN "OPEN" ELSE b.state,
     fc |-> b.fc + 1, sc |-> 0]
RefOnSuccess(b) ==
    IF b.state = "HALF_OPEN"
    THEN IF b.sc + 1 >= success_threshold
         THEN [state |-> "CLOSED", fc |-> 0, sc |-> 0]
         ELSE [state |-> "HALF_OPEN", fc |-> 0, sc |-> b.sc + 1]
    ELSE [state |-> b.state, fc |-> 0, sc |-> b.sc]


(***************************************************************************)
(* Initial state: CircuitBreaker.__init__ (44-51) with its three           *)
(* arguments drawn from small ranges; every caller idle.                   *)
(***************************************************************************)
IdleResult == [kind |-> "none", value |-> "", after |-> 0]

FreshBreaker ==
    /\ cbState = "CLOSED"
    /\ failure_count = 0
    /\ success_count = 0
    /\ last_failure_time = None
    /\ now = 0
    /\ running = NoCaller

FramesInit ==
    /\ pc = [p \in Callers |-> "idle"]
    /\ attempt = [p \in Callers |-> 0]
    /\ last_exception = [p \in Callers |-> NoExc]
    /\ exc = [p \in Callers |-> NoExc]
    /\ tmp = [p \in Callers |-> 0]
    /\ result = [p \in Callers |-> IdleResult]
    /\ calls = [p \in Callers |-> 0]
    /\ attempts = [p \in Callers |-> 0]
    /\ wins = [p \in Callers |-> 0]
    /\ pre = [p \in Callers |-> NoSnap]
    /\ ref = [state |-> "CLOSED", fc |-> 0, sc |-> 0]
    /\ streakStart = "CLOSED"
    /\ admitted = [p \in Callers |-> "-"]

(***************************************************************************)
(* call_llm_with_retry (139-212) around CircuitBreaker.call_async (78-96)  *)
(***************************************************************************)
\* 165-167: a caller enters call_llm_with_retry; attempt = 0
Start(p) ==
    /\ p \in active
    /\ pc[p] = "idle"
    /\ Runnable(p, TRUE)
    /\ running' = p
    /\ attempt' = [attempt EXCEPT ![p] = 0]
    /\ last_exception' = [last_exception EXCEPT ![p] = NoExc]
    /\ pc' = [pc EXCEPT ![p] = "admit"]
    /\ UNCHANGED <<bvars, now, active, max_retries, exc, tmp, result, hvars, jvars, pvars>>

\* 80-88: the admission check of call_async
Admit(p) ==
    /\ pc[p] = "admit"
    /\ Runnable(p, FALSE)
    /\ attempts' = [attempts EXCEPT ![p] = @ + 1]
    /\ IF cbState = "OPEN"
       THEN IF ShouldAttemptReset
            THEN /\ cbState' = "HALF_OPEN"
                 /\ ref' = [ref EXCEPT !.state = "HALF_OPEN"]
                 /\ pc' = [pc EXCEPT ![p] = "invoke"]
                 /\ exc' = exc
            ELSE /\ exc' = [exc EXCEPT ![p] = CircuitOpenError]
                 /\ pc' = [pc EXCEPT ![p] = "rejected"]
                 /\ UNCHANGED <<cbState, ref>>
       ELSE /\ pc' = [pc EXCEPT ![p] = "invoke"]
            /\ UNCHANGED <<cbState, ref, exc>>
    /\ admitted' = [admitted EXCEPT ![p] = IF pc'[p] = "invoke" THEN cbState' ELSE "-"]
    /\ UNCHANGED <<failure_threshold, recovery_timeout, success_threshold,
                   failure_count, success_count, last_failure_time, now, running, active,
                   max_retries, attempt, last_exception, tmp, result,
                   calls, wins, pre, streakStart, jvars, pvars>>

\* 91 / 170-174: the wrapped function is invoked and the coroutine suspends
Invoke(p) ==
    /\ pc[p] = "invoke"
    /\ Runnable(p, FALSE)
    /\ calls' = [calls EXCEPT ![p] = @ + 1]
    /\ pc' = [pc EXCEPT ![p] = "awaiting"]
    /\ running' = NoCaller
    /\ UNCHANGED <<bvars, now, active, max_retries, attempt, last_exception, exc, tmp,
                   result, attempts, wins, pre, ref, streakStart, admitted, jvars, pvars>>

\* 91-95: the awaited call returns a response: _on_success is entered
CompleteOk(p) ==
    /\ pc[p] = "awaiting"
    /\ Runnable(p, TRUE)
    /\ running' = p
    /\ \E r \in Responses :
         result' = [result EXCEPT ![p] = [kind |-> "pending", value |-> r, after |-> 0]]
    /\ wins' = [wins EXCEPT ![p] = @ + 1]
    /\ pre' = [pre EXCEPT ![p] = Breaker]
    /\ ref' = RefOnSuccess(ref)
    /\ streakStart' = RefOnSuccess(ref).state
    /\ pc' = [pc EXCEPT ![p] = "on_success_1"]
    /\ UNCHANGED <<bvars, now, active, max_retries, attempt, last_exception, exc, tmp,
                   calls, attempts, admitted, jvars, pvars>>

\* 91-95: the awaited call raises, or wait_for times out: _on_failure is entered
CompleteFail(p) ==
    /\ pc[p] = "awaiting"
    /\ Runnable(p, TRUE)
    /\ running' = p
    /\ \E e \in Failures : exc' = [exc EXCEPT ![p] = e]
    /\ pre' = [pre EXCEPT ![p] = Breaker]
    /\ ref' = RefOnFailure(ref)
    /\ pc' = [pc EXCEPT ![p] = "on_failure_1"]
    /\ UNCHANGED <<bvars, now, active, max_retries, attempt, last_exception, tmp, result,
                   calls, attempts, wins, streakStart, admitted, jvars, pvars>>

\* a variant of 108 that keeps the count
AfterSuccessKept(fc) == fc
\* 108: the value _on_success gives failure_count
AfterSuccess(fc) == 0

\* _on_success, 108: self.failure_count = 0
OnSuccessReset(p) ==
    /\ pc[p] = "on_success_1"
    /\ Runnable(p, FALSE)
    /\ failure_count' = AfterSuccess(failure_count)
    /\ pc' = [pc EXCEPT ![p] = "on_success_2"]
    /\ UNCHANGED <<failure_threshold, recovery_timeout, success_threshold, cbState,
                   success_count, last_failure_time, now, running, active, max_retries,
                   attempt, last_exception, exc, tmp, result, hvars, jvars, pvars>>

\* _on_success, 110-111: the state test and the load of self.success_count
OnSuccessLoad(p) ==
    /\ pc[p] = "on_success_2"
    /\ Runnable(p, FALSE)
    /\ IF cbState = "HALF_OPEN"
       THEN /\ tmp' = [tmp EXCEPT ![p] = success_count]
            /\ pc' = [pc EXCEPT ![p] = "on_success_3"]
       ELSE /\ tmp' = tmp
            /\ pc' = [pc EXCEPT ![p] = "succ_recorded"]
    /\ UNCHANGED <<bvars, now, active, running, max_retries, attempt, last_exception, exc,
                   result, hvars, jvars, pvars>>

\* _on_success, 111-114: the store of success_count + 1 and the closing test
OnSuccessStore(p) ==
    /\ pc[p] = "on_success_3"
    /\ Runnable(p, FALSE)
    /\ IF Recovered(tmp[p] + 1)
       THEN /\ cbState' = "CLOSED"
            /\ success_count' = 0
       ELSE /\ cbState' = cbState
            /\ success_count' = tmp[p] + 1
    /\ tmp' = [tmp EXCEPT ![p] = 0]
    /\ pc' = [pc EXCEPT ![p] = "succ_recorded"]
    /\ UNCHANGED <<failure_threshold, recovery_timeout, success_threshold,
                   failure_count, last_failure_time, now, running, active, max_retries,
                   attempt, last_exception, exc, result, hvars, jvars, pvars>>

\* 93 and 179-182: call_async returns the result, call_llm_with_retry returns it
Return(p) ==
    /\ pc[p] = "succ_recorded"
    /\ Runnable(p, FALSE)
    /\ result' = [result EXCEPT ![p] =
                    [kind |-> "ok", value |-> @.value, after |-> attempts[p]]]
    /\ pc' = [pc EXCEPT ![p] = "returned"]
    /\ running' = NoCaller
    /\ pre' = [pre EXCEPT ![p] = NoSnap]
    /\ admitted' = [admitted EXCEPT ![p] = "-"]
    /\ UNCHANGED <<bvars, now, active, max_retries, attempt, last_exception, exc, tmp,
                   calls, attempts, wins, ref, streakStart, jvars, pvars>>

\* _on_failure, 119: the load of self.failure_count
OnFailureLoad(p) ==
    /\ pc[p] = "on_failure_1"
    /\ Runnable(p, FALSE)
    /\ tmp' = [tmp EXCEPT ![p] = failure_count]
    /\ pc' = [pc EXCEPT ![p] = "on_failure_2"]
    /\ UNCHANGED <<bvars, now, active, running, max_retries, attempt, last_exception, exc,
                   result, hvars, jvars, pvars>>

\* a variant of 121 that keeps the count
SuccessCountAfterFailureKept(sc) == sc
\* 121: the value _on_failure gives success_count
SuccessCountAfterFailure(sc) == 0

\* _on_failure, 119-121: the store of failure_count + 1, the time stamp, the reset
OnFailureStore(p) ==
    /\ pc[p] = "on_failure_2"
    /\ Runnable(p, FALSE)
    /\ failure_count' = tmp[p] + 1
    /\ last_failure_time' = now
    /\ success_count' = SuccessCountAfterFailure(success_count)
    /\ tmp' = [tmp EXCEPT ![p] = 0]
    /\ pc' = [pc EXCEPT ![p] = "on_failure_3"]
    /\ UNCHANGED <<failure_threshold, recovery_timeout, success_threshold, cbState,
                   now, running, active, max_retries, attempt, last_exception, exc,
                   result, hvars, jvars, pvars>>

\* _on_failure, 123-124: the threshold test
OnFailureTrip(p) ==
    /\ pc[p] = "on_failure_3"
    /\ Runnable(p, FALSE)
    /\ cbState' = IF Trips(failure_count) THEN "OPEN" ELSE cbState
    /\ pc' = [pc EXCEPT ![p] = "fail_recorded"]
    /\ UNCHANGED <<failure_threshold, recovery_timeout, success_threshold,
                   failure_count, success_count, last_failure_time, now, running, active,
                   max_retries, attempt, last_exception, exc, tmp, result, hvars,
                   jvars, pvars>>

\* the value last_exception takes in the two handlers (184-195)
CaughtValue(p) == exc[p]

\* a variant in which the breaker's rejection ends the call at once
RetriedUnlessRejected(e) == e # CircuitOpenError
\* 184, 190: the two handlers catch every Exception, the breaker's own included
Retried(e) == TRUE

\* the loop test of 167 with the "last attempt" test of 198
MoreAttemptsOffByOne(p) == attempt[p] <= max_retries
MoreAttempts(p) == attempt[p] < max_retries

\* 96 and 184-207: the exception reaches call_llm_with_retry, which records it
\* and either sleeps before the next attempt or leaves the loop
Caught(p) ==
    /\ pc[p] \in {"rejected", "fail_recorded"}
    /\ Runnable(p, FALSE)
    /\ last_exception' = [last_exception EXCEPT ![p] = CaughtValue(p)]
    /\ pre' = [pre EXCEPT ![p] = NoSnap]
    /\ IF Retried(exc[p]) /\ MoreAttempts(p)
       THEN /\ pc' = [pc EXCEPT ![p] = "sleeping"]
            /\ running' = NoCaller
       ELSE /\ pc' = [pc EXCEPT ![p] = "exhausted"]
            /\ running' = running
    /\ admitted' = [admitted EXCEPT ![p] = "-"]
    /\ UNCHANGED <<bvars, now, active, max_retries, attempt, exc, tmp, result,
                   calls, attempts, wins, ref, streakStart, jvars, pvars>>

\* 207 and 167: asyncio.sleep ends, the next attempt begins
Wake(p) ==
    /\ pc[p] = "sleeping"
    /\ Runnable(p, TRUE)
    /\ running' = p
    /\ attempt' = [attempt EXCEPT ![p] = @ + 1]
    /\ pc' = [pc EXCEPT ![p] = "admit"]
    /\ UNCHANGED <<bvars, now, active, max_retries, last_exception, exc, tmp, result,
                   hvars, jvars, pvars>>

base_delay == 1               \* seconds
max_delay == 10               \* seconds

\* a variant of 200 that takes the delays for minutes
DelayInMinutes(a) ==
    60 * (IF base_delay * 2 ^ a <= max_delay THEN base_delay * 2 ^ a ELSE max_delay)
\* 200: delay = min(base_delay * (2 ** attempt), max_delay)
Delay(a) == IF base_delay * 2 ^ a <= max_delay THEN base_delay * 2 ^ a ELSE max_delay

\* 203-204: sleep_time = delay plus or minus up to 20%; in whole seconds, the
\* shortest sleep rounded down and the longest rounded up
SleepTimes(a) == {(Delay(a) * 8) \div 10, (Delay(a) * 12 + 9) \div 10}

\* 198-207 and 167 with the clock: asyncio.sleep(sleep_time) ends after
\* sleep_time and the next attempt begins
Sleep(p) ==
    /\ pc[p] = "sleeping"
    /\ Runnable(p, TRUE)
    /\ running' = p
    /\ \E d \in SleepTimes(attempt[p]) : now' = now + d
    /\ attempt' = [attempt EXCEPT ![p] = @ + 1]
    /\ pc' = [pc EXCEPT ![p] = "admit"]
    /\ UNCHANGED <<bvars, active, max_retries, last_exception, exc, tmp, result,
                   hvars, jvars, pvars>>

\* 209-212: all attempts failed; one Exception carrying str(last_exception)
Exhausted(p) ==
    /\ pc[p] = "exhausted"
    /\ Runnable(p, FALSE)
    /\ result' = [result EXCEPT ![p] =
                    [kind |-> "error", value |-> Str(last_exception[p]),
                     after |-> attempts[p]]]
    /\ pc' = [pc EXCEPT ![p] = "raised"]
    /\ running' = NoCaller
    /\ UNCHANGED <<bvars, now, active, max_retries, attempt, last_exception, exc, tmp,
                   hvars, jvars, pvars>>

\* the caller's frame is dropped once it has its answer
Leave(p) ==
    /\ pc[p] \in {"returned", "raised"}
    /\ pc' = [pc EXCEPT ![p] = "idle"]
    /\ attempt' = [attempt EXCEPT ![p] = 0]
    /\ last_exception' = [last_exception EXCEPT ![p] = NoExc]
    /\ exc' = [exc EXCEPT ![p] = NoExc]
    /\ result' = [result EXCEPT ![p] = IdleResult]
    /\ calls' = [calls EXCEPT ![p] = 0]
    /\ attempts' = [attempts EXCEPT ![p] = 0]
    /\ wins' = [wins EXCEPT ![p] = 0]
    /\ UNCHANGED <<bvars, now, active, running, max_retries, tmp, pre, ref, streakStart, admitted,
                   jvars, pvars>>

\* the number of calls the same caller makes one after the other
ScenarioCalls == 2

\* the caller has its error and calls call_llm_with_retry again; the tallies of
\* attempts and provider invocations run on over the calls
CallAgain(p) ==
    /\ pc[p] = "raised"
    /\ attempts[p] < ScenarioCalls * (max_retries + 1)
    /\ pc' = [pc EXCEPT ![p] = "idle"]
    /\ attempt' = [attempt EXCEPT ![p] = 0]
    /\ last_exception' = [last_exception EXCEPT ![p] = NoExc]
    /\ exc' = [exc EXCEPT ![p] = NoExc]
    /\ result' = [result EXCEPT ![p] = IdleResult]
    /\ UNCHANGED <<bvars, now, active, running, max_retries, tmp, hvars, jvars, pvars>>

\* reset_circuit_breaker (231-241), a synchronous function
Reset ==
    /\ running = NoCaller
    /\ cbState' = "CLOSED"
    /\ failure_count' = 0
    /\ success_count' = 0
    /\ last_failure_time' = None
    /\ ref' = [state |-> "CLOSED", fc |-> 0, sc |-> 0]
    /\ streakStart' = "CLOSED"
    /\ UNCHANGED <<failure_threshold, recovery_timeout, success_threshold, now,
                   running, active, fvars, calls, attempts, wins, pre, admitted, jvars, pvars>>

\* time passes while the coroutines are suspended
Tick ==
    /\ running = NoCaller
    /\ now < MaxTime
    /\ now' = now + 1
    /\ UNCHANGED <<bvars, running, active, fvars, hvars, jvars, pvars>>


(***************************************************************************)
(* TheJudge (core/judge.py).  Decimal scores are held in thousandths; a    *)
(* text is a sequence of words.                                            *)
(***************************************************************************)
WEIGHT_TIER_1 == 300          \* Decimal('0.30')
WEIGHT_TIER_3 == 700          \* Decimal('0.70')
EXECUTION_THRESHOLD == 650    \* Decimal('0.65')
CooldownMinutes == 15         \* config 'cooldown_minutes', default 15
Veto == -1000                 \* Decimal('-1')
NaN == 999999                 \* Decimal('NaN')

Contains(text, word) == \E i \in 1..Len(text) : text[i] = word

Max(a, b) == IF a >= b THEN a ELSE b
Min(a, b) == IF a <= b THEN a ELSE b

Ok(v) == [kind |-> "ok", value |-> v]
Raised(e) == [kind |-> "raise", value |-> e]

\* judge.py binds no name "logger" (imports, 1-13): every logger.* call in this
\* file raises NameError
LoggerCall == Raised(<<"NameError:", "name", "'logger'", "is", "not", "defined">>)

\* legacy moving-average fallback (218-223, 231-236)
Legacy(data, tag, noData) ==
    IF data.ma_fast # 0 /\ data.ma_slow # 0
    THEN IF data.ma_fast > data.ma_slow
         THEN Ok([score |-> 1000, reason |-> <<"Bullish", "Structure", tag>>])
         ELSE Ok([score |-> Veto, reason |-> <<"Bearish", "Structure", tag>>])
    ELSE Ok([score |-> 500, reason |-> noData])

\* a variant with the trend term on a scale of 0.8
TrendScoreWide(trend) ==
    CASE trend = "strong_bullish" -> 800
      [] trend = "bullish" -> 600
      [] trend = "neutral" -> 0
      [] trend = "bearish" -> -600
      [] trend = "strong_bearish" -> -800
      [] OTHER -> 0

\* trend_scores.get(trend, 0) (251-258)
TrendScore(trend) ==
    CASE trend = "strong_bullish" -> 400
      [] trend = "bullish" -> 300
      [] trend = "neutral" -> 0
      [] trend = "bearish" -> -300
      [] trend = "strong_bearish" -> -400
      [] OTHER -> 0

\* RSI component (264-272)
RsiScore(rsi) ==
    IF rsi > 70 THEN -200
    ELSE IF rsi < 30 THEN 200
    ELSE IF 40 <= rsi /\ rsi <= 60 THEN 100 ELSE 0
RsiReason(rsi) ==
    IF rsi > 70 THEN <<"RSI", "Overbought">>
    ELSE IF rsi < 30 THEN <<"RSI", "Oversold">>
    ELSE IF 40 <= rsi /\ rsi <= 60 THEN <<"RSI", "Neutral">> ELSE <<>>

\* Bollinger component (275-283); bb is the position in hundredths
BbScore(bb) ==
    IF bb > 80 THEN -200
    ELSE IF bb < 20 THEN 200
    ELSE IF 40 <= bb /\ bb <= 60 THEN 100 ELSE 0
BbReason(bb) ==
    IF bb > 80 THEN <<"Price", "near", "upper", "BB">>
    ELSE IF bb < 20 THEN <<"Price", "near", "lower", "BB">>
    ELSE IF 40 <= bb /\ bb <= 60 THEN <<"Price", "in", "BB", "middle">> ELSE <<>>

\* structure component (286-300): position_in_range < 0.3, > 0.7
StructScore(st) ==
    IF st.support # 0 /\ st.resistance # 0 /\ st.price # 0
       /\ st.resistance - st.support > 0
    THEN IF (st.price - st.support) * 10 < 3 * (st.resistance - st.support) THEN 200
         ELSE IF (st.price - st.support) * 10 > 7 * (st.resistance - st.support)
              THEN -200 ELSE 0
    ELSE 0
StructReason(st) ==
    IF StructScore(st) = 200 THEN <<"Near", "support">>
    ELSE IF StructScore(st) = -200 THEN <<"Near", "resistance">> ELSE <<>>

\* the veto test of evaluate (56)
IsVetoBelow(score) == score < Veto
IsVeto(score) == score = Veto

\* the hard-veto test of the chart path (308)
ChartVeto(score) == score < -700

\* _evaluate_tier_1 (205-321)
EvaluateTier1(data, chart) ==
    IF data.symbol = ""
    THEN Legacy(data, "(Legacy)", <<"Neutral/No", "Data">>)
    ELSE IF chart.status = "raises"
    THEN LoggerCall                       \* 313-314: the handler's logger.error
    ELSE IF chart.status = "unavailable"
    THEN Legacy(data, "(Legacy)", <<"Neutral/No", "Chart", "Data">>)
    ELSE
      LET raw == 500 + TrendScore(chart.trend) + RsiScore(chart.rsi)
                     + BbScore(chart.bb) + StructScore(chart.structure)
          score == Max(-1000, Min(1000, raw))
          reasons == (IF chart.trend # "neutral" THEN <<"Trend:", chart.trend>> ELSE <<>>)
                     \o RsiReason(chart.rsi) \o BbReason(chart.bb)
                     \o StructReason(chart.structure)
          reason == IF reasons = <<>> THEN <<"Neutral">> ELSE reasons
      IN IF ChartVeto(score)
         THEN Ok([score |-> Veto, reason |-> <<"Strong", "Bearish", "Veto:">> \o reason])
         ELSE Ok([score |-> score, reason |-> <<"Tier", "1:">> \o reason])

\* Decimal(score_str) for the score texts a reply can carry (397)
DecimalOf(text) ==
    CASE text = "0.85" -> Ok(850)
      [] text = "0.20" -> Ok(200)
      [] text = "0.10" -> Ok(100)
      [] text = "1.5" -> Ok(1500)
      [] text = "-0.5" -> Ok(-500)
      [] text = "NaN" -> Ok(NaN)
      [] OTHER -> Raised(<<"InvalidOperation">>)

ReasonLimit == 50

\* content[:50] (399); a text shorter than ReasonLimit is held as its words, a
\* longer one as its characters
Truncated(content) == SubSeq(content, 1, Min(Len(content), ReasonLimit))

\* a reply of ReasonLimit + 1 characters without a separator
LongContent == [i \in 1..(ReasonLimit + 1) |-> "x"]

\* the tail of _arbitrate_agents (385-401) on the outcome of call_llm_with_retry
ParseReply(reply) ==
    IF reply.kind = "raise"
    THEN [score |-> 500, reason |-> <<"Judge", "Error:">> \o reply.value]
    ELSE IF reply.sep
    THEN IF DecimalOf(reply.score).kind = "ok"
         THEN [score |-> DecimalOf(reply.score).value, reason |-> reply.reason]
         ELSE [score |-> 500,
               reason |-> <<"Judge", "Error:">> \o DecimalOf(reply.score).value]
    ELSE [score |-> 500, reason |-> Truncated(reply.reason)]

\* final score (84-87)
FinalScore(t1, t3) ==
    IF t3 = NaN THEN NaN ELSE (t1 * WEIGHT_TIER_1 + t3 * WEIGHT_TIER_3) \div 1000

\* _create_signal (561-572)
CreateSignal(action, lot, reason, sl, tp, score) ==
    [action |-> action, lot_size |-> lot, sl |-> sl, tp |-> tp,
     reason |-> reason, confidence_score |-> score]

NoSignal == [action |-> "-", lot_size |-> 0, sl |-> 0, tp |-> 0,
             reason |-> <<>>, confidence_score |-> 0]
NoRaise == <<>>

\* elapsed < timedelta(minutes=cooldown_mins) (50), elapsed in seconds
InCooldownMinutesAsSeconds(elapsed) == elapsed < CooldownMinutes
InCooldown(elapsed) == elapsed < CooldownMinutes * 60

\* now = datetime.now() (43) is read after the call began and after the store
\* answered: the clock either still shows the instant of the call or a later one
\* (later by less than a second: the whole seconds are in elapsed).
ClockLags == {"same", "later"}

\* int(cooldown_mins - elapsed.total_seconds() / 60) (51), for elapsed below the
\* cooldown: int() drops the fraction, so a clock that moved on from a whole
\* number of remaining minutes leaves one minute less.
WaitTime(elapsed, lag) ==
    LET left == CooldownMinutes * 60 - elapsed IN
    IF lag = "later" /\ left % 60 = 0 THEN left \div 60 - 1 ELSE left \div 60

MinutesText(n) ==
    CASE n = 0 -> "0m" [] n = 1 -> "1m" [] n = 4 -> "4m" [] n = 9 -> "9m"
      [] n = 10 -> "10m" [] n = 14 -> "14m" [] n = 15 -> "15m" [] OTHER -> "Nm"


(***************************************************************************)
(* TheJudge.evaluate (34-203), one action per stage.                       *)
(*   jin     the market data object and the cooldown store's answer        *)
(*   jt1     (tier_1_score, tier_1_reason)                                 *)
(*   jt3     (tier_3_score, tier_3_reason)                                 *)
(*   jsignal the dict evaluate returns, once jpc = "returned"              *)
(*   jraised the exception evaluate raises, once jpc = "raised"            *)
(*   jran    the collaborators and stages invoked so far                   *)
(***************************************************************************)
Symbols == {"", "EURUSD"}
MaValues == {0, 1, 2}                    \* 0 stands for None / 0.0
LastTrades ==
    {[status |-> "none", elapsed |-> 0], [status |-> "raises", elapsed |-> 0]}
    \cup {[status |-> "at", elapsed |-> e] : e \in {300, 899, 900}}

Trends == {"strong_bullish", "bullish", "neutral", "bearish", "strong_bearish", "sideways"}
Structures ==
    {[support |-> 0, resistance |-> 0, price |-> 0],
     [support |-> 10, resistance |-> 20, price |-> 11],
     [support |-> 10, resistance |-> 20, price |-> 15],
     [support |-> 10, resistance |-> 20, price |-> 19]}
Charts ==
    {[status |-> s, trend |-> "neutral", rsi |-> 50, bb |-> 50,
      structure |-> [support |-> 0, resistance |-> 0, price |-> 0]]
        : s \in {"raises", "unavailable"}}
    \cup [status : {"available"}, trend : Trends, rsi : {20, 35, 50, 80},
          bb : {10, 30, 50, 90}, structure : Structures]

Replies ==
    {[kind |-> "ok", sep |-> TRUE, score |-> t, reason |-> <<"verdict">>]
        : t \in {"0.85", "0.20", "0.10", "1.5", "-0.5", "NaN", "abc"}}
    \cup {[kind |-> "ok", sep |-> FALSE, score |-> "", reason |-> <<"WAIT">>],
          [kind |-> "ok", sep |-> FALSE, score |-> "", reason |-> LongContent]}
    \cup {[kind |-> "raise", sep |-> FALSE, score |-> "",
           value |-> <<"LLM", "call", "failed", "after", "4", "attempts:", "ErrA">>]}

NoTier == [score |-> 0, reason |-> <<>>]

JudgeIdle ==
    /\ jpc = "off"
    /\ jin = [symbol |-> "", ma_fast |-> 0, ma_slow |-> 0,
              last_trade |-> [status |-> "none", elapsed |-> 0]]
    /\ jt1 = NoTier
    /\ jt3 = NoTier
    /\ jsignal = NoSignal
    /\ jraised = NoRaise
    /\ jran = {}

JudgeInit ==
    /\ jpc = "cooldown"
    /\ jin \in [symbol : Symbols, ma_fast : MaValues, ma_slow : MaValues,
                last_trade : LastTrades]
    /\ jt1 = NoTier
    /\ jt3 = NoTier
    /\ jsignal = NoSignal
    /\ jraised = NoRaise
    /\ jran = {}

junch == <<bvars, now, running, active, fvars, hvars, pvars>>

JReturn(signal) ==
    /\ jsignal' = signal
    /\ jpc' = "returned"
    /\ jraised' = jraised

JRaise(e) ==
    /\ jraised' = e
    /\ jpc' = "raised"
    /\ jsignal' = jsignal

\* 37-52: cooldown check
JCooldown ==
    /\ jpc = "cooldown"
    /\ jran' = jran \cup {"db"}
    /\ IF jin.last_trade.status = "raises"
       THEN JRaise(<<"sqlite3.OperationalError">>)
       ELSE IF jin.last_trade.status = "at" /\ InCooldown(jin.last_trade.elapsed)
       THEN \E lag \in ClockLags :
              JReturn(CreateSignal("HOLD", 0,
                <<"COOLDOWN", "ACTIVE:",
                  MinutesText(WaitTime(jin.last_trade.elapsed, lag)),
                  "remaining">>, 0, 0, 0))
       ELSE /\ jpc' = "tier1"
            /\ UNCHANGED <<jsignal, jraised>>
    /\ UNCHANGED <<jin, jt1, jt3, junch>>

\* 54-57: Tier 1 and its veto
JTier1 ==
    /\ jpc = "tier1"
    /\ jran' = jran \cup {"tier1"}
    /\ \E chart \in Charts :
         LET r == EvaluateTier1(jin, chart) IN
         IF r.kind = "raise"
         THEN /\ JRaise(r.value)
              /\ jt1' = jt1
         ELSE /\ jt1' = r.value
              /\ IF IsVeto(r.value.score)
                 THEN JReturn(CreateSignal("HOLD", 0,
                          <<"Tier", "1", "Veto:">> \o r.value.reason, 0, 0, 0))
                 ELSE /\ jpc' = "rag"
                      /\ UNCHANGED <<jsignal, jraised>>
    /\ UNCHANGED <<jin, jt3, junch>>

\* a collaborator that either answers or raises; evaluate has no handler (59-74)
JCollaborator(at, name, next) ==
    /\ jpc = at
    /\ jran' = jran \cup {name}
    /\ \/ /\ jpc' = next
          /\ UNCHANGED <<jsignal, jraised>>
       \/ JRaise(<<"RuntimeError:", name>>)
    /\ UNCHANGED <<jin, jt1, jt3, junch>>

\* 61-63: rag.query_similar_history, rag.query_concepts
JRetrieve == JCollaborator("rag", "rag", "narrative")
\* 71: get_market_narrative
JNarrative == JCollaborator("narrative", "narrative", "pro")
\* 73: pro_agent.argue
JPro == JCollaborator("pro", "pro", "con")
\* 74: con_agent.argue
JCon == JCollaborator("con", "con", "arbitrate")

\* 77-82: _arbitrate_agents (323-401)
JArbitrate ==
    /\ jpc = "arbitrate"
    /\ \/ \* 330-355: the chart context fails, the handler's logger.debug raises
          /\ jin.symbol # ""
          /\ jran' = jran
          /\ JRaise(LoggerCall.value)
          /\ jt3' = jt3
       \/ \* 385-401: the resilient provider call and the parse of its reply
          /\ jran' = jran \cup {"llm"}
          /\ \E reply \in Replies : jt3' = ParseReply(reply)
          /\ jpc' = "decide"
          /\ UNCHANGED <<jsignal, jraised>>
    /\ UNCHANGED <<jin, jt1, junch>>

\* 84-116, 162-168: final score and the threshold test
JDecide ==
    /\ jpc = "decide"
    /\ LET final == FinalScore(jt1.score, jt3.score) IN
       IF final = NaN
       THEN JRaise(<<"InvalidOperation">>)       \* 89: NaN >= Decimal signals
       ELSE IF final >= EXECUTION_THRESHOLD
       THEN /\ jpc' = "sizing"
            /\ UNCHANGED <<jsignal, jraised>>
       ELSE /\ jsignal' = CreateSignal("HOLD", 0,
                            <<"Score", "<", "0.65", "|", "Judge:">> \o jt3.reason,
                            0, 0, final)
            /\ jpc' = "audit"
            /\ jraised' = jraised
    /\ UNCHANGED <<jin, jt1, jt3, jran, junch>>

\* 100-108: _calculate_safe_lot (403-503).  Every path through it calls logger.*
\* (450, 464, 482, 492) and so does its handler (501): it raises NameError
JSizing ==
    /\ jpc = "sizing"
    /\ jran' = jran \cup {"sizing"}
    /\ JRaise(LoggerCall.value)
    /\ UNCHANGED <<jin, jt1, jt3, junch>>

\* how the audit insert goes (audit_log.py 126-130)
AuditOutcomes == {"saved", "db_error"}
\* how the monitor's status file and decision history go (judge_monitor.py 59-80)
MonitorOutcomes == {"recorded", "status_error", "history_error"}

\* a variant of log_decision without its handler
LogDecisionUnhandled(outcome) ==
    IF outcome = "db_error" THEN Raised(<<"OperationalError">>) ELSE Ok({"audit"})

\* AuditLogger.log_decision (audit_log.py 64-150): the body is one try block whose
\* handler logs and returns
LogDecision(outcome) ==
    IF outcome = "db_error" THEN Ok({"audit", "audit_failed"}) ELSE Ok({"audit"})

\* JudgeMonitor.record_evaluation (judge_monitor.py 26-83): _save_status and the
\* decision-history block each handle their own errors
RecordEvaluation(outcome) ==
    IF outcome = "recorded" THEN Ok({"monitor"}) ELSE Ok({"monitor", "monitor_failed"})

\* 171-182: audit_logger.log_decision
JAudit ==
    /\ jpc = "audit"
    /\ \E outcome \in AuditOutcomes :
         LET r == LogDecision(outcome) IN
         IF r.kind = "raise"
         THEN /\ JRaise(r.value)
              /\ jran' = jran \cup {"audit"}
         ELSE /\ jran' = jran \cup r.value
              /\ jpc' = "monitor"
              /\ UNCHANGED <<jsignal, jraised>>
    /\ UNCHANGED <<jin, jt1, jt3, junch>>

\* 185-203: monitor.record_evaluation, then return signal
JMonitor ==
    /\ jpc = "monitor"
    /\ \E outcome \in MonitorOutcomes :
         LET r == RecordEvaluation(outcome) IN
         IF r.kind = "raise"
         THEN /\ JRaise(r.value)
              /\ jran' = jran \cup {"monitor"}
         ELSE /\ jran' = jran \cup r.value
              /\ jpc' = "returned"
              /\ UNCHANGED <<jsignal, jraised>>
    /\ UNCHANGED <<jin, jt1, jt3, junch>>


(***************************************************************************)
(* TheJudge._calculate_safe_lot (core/judge.py 403-503) with               *)
(* AccountManager.get_risk_settings and validate_lot_size                  *)
(* (core/account_manager.py).  Lots are held in thousandths of a lot,      *)
(* balances in dollars, price distances in 0.0001, fractions of the        *)
(* balance in basis points.                                                *)
(***************************************************************************)
NoAccount == [present |-> FALSE, min_lot |-> 0, max_lot |-> 0, lot_step |-> 0,
              is_micro |-> FALSE]
NormalAccount == [present |-> TRUE, min_lot |-> 10, max_lot |-> 100000,
                  lot_step |-> 10, is_micro |-> FALSE]
MicroAccount == [present |-> TRUE, min_lot |-> 100, max_lot |-> 100000,
                 lot_step |-> 100, is_micro |-> TRUE]
Accounts == {NoAccount, NormalAccount, MicroAccount}

Modes == {"safe", "balanced", "aggressive", "sniper"}
SizerSymbols == {"EURUSD", "USDJPY", "XAUUSD", "XAGUSD", "BTCUSD"}
Balances == {5, 100, 1000, 10000}
PriceDiffs == {0, 50, 110, 500}
MinLots == {10, 100}
StepLots == {1, 10, 100}

\* _estimate_pip_value (505-519): the first substring that the symbol holds
EstimatePipValue(symbol) ==
    CASE symbol = "USDJPY" -> 1000
      [] symbol = "XAUUSD" -> 100
      [] symbol = "XAGUSD" -> 50
      [] symbol = "BTCUSD" -> 1
      [] OTHER -> 100

\* get_risk_settings (account_manager.py 269-344): risk_per_trade, max_daily_risk
\* in basis points, and max_lot
ModeSettings(mode) ==
    CASE mode = "safe" -> [risk_per_trade |-> 100, max_daily_risk |-> 300]
      [] mode = "aggressive" -> [risk_per_trade |-> 300, max_daily_risk |-> 600]
      [] mode = "sniper" -> [risk_per_trade |-> 150, max_daily_risk |-> 300]
      [] OTHER -> [risk_per_trade |-> 200, max_daily_risk |-> 400]

GetRiskSettings(account, mode) ==
    IF ~account.present
    THEN [risk_per_trade |-> 200, max_daily_risk |-> 400, max_lot |-> 100000]
    ELSE [risk_per_trade |-> ModeSettings(mode).risk_per_trade,
          max_daily_risk |-> ModeSettings(mode).max_daily_risk,
          max_lot |-> account.max_lot]

\* 433-442: the values the account overrides
SizerMinLot(inp) == IF inp.account.present THEN inp.account.min_lot ELSE inp.min_lot
SizerStepLot(inp) == IF inp.account.present THEN inp.account.lot_step ELSE inp.step_lot
RISK_PERCENT == 200
MAX_RISK_PERCENT == 500
SizerRiskPercent(inp) ==
    IF inp.account.present THEN GetRiskSettings(inp.account, inp.mode).risk_per_trade
    ELSE RISK_PERCENT

\* 445, 455-456 and the ROUND_DOWN quantize of 463 / 467: the whole steps of
\* `step` thousandths in risk_amount / (price_diff * pip_value)
\* (computed as n * k \div d by parts, to stay within 32-bit integers)
Affordable(inp, bps, step) ==
    LET n == inp.balance * bps
        k == 1000 \div step
        d == inp.diff * EstimatePipValue(inp.symbol)
    IN (n \div d) * k + ((n % d) * k) \div d

StepsDown(inp, step) == Affordable(inp, SizerRiskPercent(inp), step)

\* round(x, 2) of validate_lot_size (244) on thousandths; a value ending in 5 is
\* not representable in binary and falls to the side its double lies on.
\* RoundsUpAtHalf lists, of the lots ending in 5 that the inputs below produce,
\* those whose double lies above: the inputs produce none.
RoundsUpAtHalf == {}
Round2(m) ==
    LET r == m % 10 IN
    IF r < 5 \/ (r = 5 /\ m \notin RoundsUpAtHalf) THEN m - r ELSE m - r + 10

\* round(lot_size / lot_step) * lot_step of validate_lot_size (261-262) is a
\* float product, taken when lot_size % lot_step > 0.0001 in floats.  Of the step
\* counts of 0.01 that the inputs below produce, these give a product that is not
\* the decimal it stands for (681 * 0.01 = 6.8100000000000005).
InexactProducts == {681}

\* validate_lot_size (account_manager.py 234-267) on float(raw_lot)
ValidateLotSize(m, account) ==
    IF ~account.present
    THEN [lot |-> Round2(Max(10, Min(100000, m))), inexact |-> FALSE]
    ELSE IF m < account.min_lot THEN [lot |-> account.min_lot, inexact |-> FALSE]
    ELSE IF m > account.max_lot THEN [lot |-> account.max_lot, inexact |-> FALSE]
    ELSE [lot |-> m,
          inexact |-> account.lot_step = 10 /\ (m \div 10) \in InexactProducts]

\* 476-481: min_lot * price_diff * pip_value / balance > max_daily_risk
\* (a > 1000 * b, computed without the product)
MinLotRiskExceeds(inp) ==
    LET a == SizerMinLot(inp) * inp.diff * EstimatePipValue(inp.symbol)
        b == GetRiskSettings(inp.account, inp.mode).max_daily_risk * inp.balance
    IN (a \div 1000 > b) \/ (a \div 1000 = b /\ a % 1000 > 0)

NoRaw == [lot |-> 0, inexact |-> FALSE]
NoResult == [lot |-> 0, inexact |-> FALSE]

SizerIdle ==
    /\ spc = "off"
    /\ sin = [balance |-> 0, diff |-> 0, symbol |-> "", min_lot |-> 0, step_lot |-> 0,
              mode |-> "", account |-> NoAccount]
    /\ sraw = NoRaw
    /\ sresult = NoResult
    /\ sexc = ""

SizerInit ==
    /\ spc = "enter"
    /\ sin \in [balance : Balances, diff : PriceDiffs, symbol : SizerSymbols,
                min_lot : MinLots, step_lot : StepLots, mode : Modes,
                account : Accounts]
    /\ sraw = NoRaw
    /\ sresult = NoResult
    /\ sexc = ""


core == <<bvars, now, running, active, fvars, hvars>>
sunch == <<core, jvars, avars, gvars, tvars, rvars>>

\* 423-451: account and risk settings, the stop distance
SResolve ==
    /\ spc = "enter"
    /\ spc' = IF sin.diff = 0 THEN "log_zero_sl" ELSE "round"
    /\ UNCHANGED <<sin, sraw, sresult, sexc, sunch>>

\* 453-468: raw lot, rounded down to 0.1 (micro account) or to the lot step
SRound ==
    /\ spc = "round"
    /\ IF sin.account.present /\ sin.account.is_micro
       THEN /\ sraw' = [lot |-> StepsDown(sin, 100) * 100, inexact |-> FALSE]
            /\ spc' = "log_micro"
       ELSE /\ sraw' = [lot |-> StepsDown(sin, SizerStepLot(sin)) * SizerStepLot(sin),
                        inexact |-> FALSE]
            /\ spc' = "validate"
    /\ UNCHANGED <<sin, sresult, sexc, sunch>>

\* 471-472: raw_lot = Decimal(str(adjusted_lot))
SValidate ==
    /\ spc = "validate"
    /\ sraw' = ValidateLotSize(sraw.lot, sin.account)
    /\ spc' = "risk_check"
    /\ UNCHANGED <<sin, sresult, sexc, sunch>>

\* 475-487: the minimum lot and the risk it carries
SRiskCheck ==
    /\ spc = "risk_check"
    /\ IF sraw.lot < SizerMinLot(sin)
       THEN IF MinLotRiskExceeds(sin)
            THEN /\ spc' = "log_abort"
                 /\ sraw' = sraw
            ELSE /\ spc' = "clamp"
                 /\ sraw' = [lot |-> SizerMinLot(sin), inexact |-> FALSE]
       ELSE /\ spc' = "clamp"
            /\ sraw' = sraw
    /\ UNCHANGED <<sin, sresult, sexc, sunch>>

\* 490: result = max(min_lot, min(max_lot, raw_lot))
SClamp ==
    /\ spc = "clamp"
    /\ LET top == GetRiskSettings(sin.account, sin.mode).max_lot
           lot == Max(SizerMinLot(sin), Min(top, sraw.lot))
       IN sresult' = [lot |-> lot,
                      inexact |-> sraw.inexact /\ lot = sraw.lot /\ lot < top]
    /\ spc' = "log_result"
    /\ UNCHANGED <<sin, sraw, sexc, sunch>>

\* 450, 464, 482, 492: the logger call that stands before each return; logger is
\* not bound in judge.py
SLog ==
    /\ spc \in {"log_zero_sl", "log_micro", "log_abort", "log_result"}
    /\ sexc' = LoggerCall.value[1]
    /\ spc' = "handler"
    /\ UNCHANGED <<sin, sraw, sresult, sunch>>

\* 500-503: the handler's own logger.error raises before "return min_lot"
SHandler ==
    /\ spc = "handler"
    /\ sexc' = LoggerCall.value[1]
    /\ spc' = "raised"
    /\ UNCHANGED <<sin, sraw, sresult, sunch>>

(***************************************************************************)
(* Arbitrator.judge_debate (core/agents.py 49-131).  Confidences and the   *)
(* tier-1 strength are held in thousandths, the final score in millionths. *)
(* The code computes in binary floating point: where the exact value lies  *)
(* on a threshold, the double may lie beside it.                           *)
(***************************************************************************)
min_confidence_threshold == 650
tier1_weight == 300
tier3_weight == 700
DebateMargin == 150
StrongThreshold == 800

ArbScores == {0, 150, 300, 500, 550, 650, 800, 1000}
ArbTier1 == {0, 300, 600, 800, 1000}

\* the pairs <<low, high>> of ArbScores, 0.15 apart, whose difference in doubles
\* is 0.15000000000000002 (0.65 - 0.5, 0.8 - 0.65); 0.15 - 0.0 and 0.3 - 0.15 are not
DiffOverMargin == {<<500, 650>>, <<650, 800>>}

\* the pairs <<tier-1 strength, debate score>> whose weighted sum lies exactly on
\* 0.65 or 0.8 and comes out one ulp below in doubles
\* (0.3 * 0.3 + 0.8 * 0.7, 1.0 * 0.3 + 0.5 * 0.7 = 0.6499999999999999,
\*  0.8 * 0.3 + 0.8 * 0.7 = 0.7999999999999999)
SumUnderThreshold == {<<300, 800>>, <<1000, 500>>, <<800, 800>>}

\* a - b > 0.15 (74, and 78 with the operands exchanged)
ScoreDiffAbove(a, b) ==
    \/ a - b > DebateMargin
    \/ a - b = DebateMargin /\ <<b, a>> \in DiffOverMargin

\* 93-95: tier1_trend_strength * 0.30 + debate_score * 0.70
WeightedScore(t1, ds) == t1 * tier1_weight + ds * tier3_weight

\* final_score >= threshold (98) and the negation of final_score < 0.8 (100, 102)
ScoreReaches(t1, ds, threshold) ==
    \/ WeightedScore(t1, ds) > threshold * 1000
    \/ WeightedScore(t1, ds) = threshold * 1000 /\ <<t1, ds>> \notin SumUnderThreshold

NoVerdict == [debate_winner |-> "-", debate_bias |-> "-", debate_score |-> 0,
              final_score |-> 0, action |-> "-"]

ArbIdle ==
    /\ apc = "off"
    /\ ain = [pro |-> 0, con |-> 0, tier1 |-> 0, veto |-> FALSE]
    /\ aout = NoVerdict

ArbInit ==
    /\ apc = "debate"
    /\ ain \in [pro : ArbScores, con : ArbScores, tier1 : ArbTier1, veto : BOOLEAN]
    /\ aout = NoVerdict

aunch == <<core, jvars, svars, gvars, tvars, rvars>>

\* 68-86: the debate winner
ADebate ==
    /\ apc = "debate"
    /\ aout' =
         IF ScoreDiffAbove(ain.pro, ain.con)
         THEN [aout EXCEPT !.debate_winner = "PRO", !.debate_bias = "bullish",
                           !.debate_score = ain.pro]
         ELSE IF ScoreDiffAbove(ain.con, ain.pro)
         THEN [aout EXCEPT !.debate_winner = "CON", !.debate_bias = "bearish",
                           !.debate_score = ain.con]
         ELSE [aout EXCEPT !.debate_winner = "NEUTRAL", !.debate_bias = "neutral",
                           !.debate_score = (ain.pro + ain.con) \div 2]
    /\ apc' = "score"
    /\ UNCHANGED <<ain, aunch>>

\* 88-106: the final score and the action
AScore ==
    /\ apc = "score"
    /\ aout' =
         IF ain.veto
         THEN [aout EXCEPT !.final_score = aout.debate_score * 300,
                           !.action = "HOLD"]
         ELSE [aout EXCEPT
                 !.final_score = WeightedScore(ain.tier1, aout.debate_score),
                 !.action =
                    IF ScoreReaches(ain.tier1, aout.debate_score,
                                    min_confidence_threshold)
                    THEN IF aout.debate_bias = "bullish"
                         THEN IF ScoreReaches(ain.tier1, aout.debate_score,
                                              StrongThreshold)
                              THEN "STRONG_BUY" ELSE "BUY"
                         ELSE IF aout.debate_bias = "bearish"
                         THEN IF ScoreReaches(ain.tier1, aout.debate_score,
                                              StrongThreshold)
                              THEN "STRONG_SELL" ELSE "SELL"
                         ELSE "HOLD"
                    ELSE "HOLD"]
    /\ apc' = "done"
    /\ UNCHANGED <<ain, aunch>>

(***************************************************************************)
(* StructuredProAgent / StructuredConAgent.analyze_structured              *)
(* (core/agents.py 178-221, 226-266).  Confidences and weights are held in *)
(* thousandths; confidence_score is the fraction num / den of thousandths  *)
(* (the double the code computes lies within one ulp of it).               *)
(***************************************************************************)
StructuredAgents == {"pro", "con"}
AgentPrices == {0, 1, 2}                    \* market_data 'open' and 'close'
RsiValues == {None, 0, 39, 40, 60, 61}      \* market_data.get('rsi')
Spreads == {0, 3, 4}                        \* market_data.get('spread', 0)
TierContexts == {<<>>, <<"near", "RESISTANCE">>, <<"Resistance", "overhead">>,
                 <<"support", "holds">>}

\* str.lower() on the words of TierContexts
Lower(word) ==
    IF word \in {"RESISTANCE", "Resistance"} THEN "resistance" ELSE word

\* "resistance" in tier1_context.lower() (246)
MentionsResistance(context) ==
    \E i \in 1..Len(context) : Lower(context[i]) = "resistance"

\* 191-206: the arguments of the Pro agent
ProArguments(inp) ==
    (IF inp.close > inp.open
     THEN <<[claim |-> "Bullish price action", confidence |-> 600, weight |-> 300]>>
     ELSE <<>>)
    \o (IF inp.rsi # None /\ inp.rsi # 0 /\ 40 <= inp.rsi /\ inp.rsi <= 60
        THEN <<[claim |-> "RSI in optimal zone", confidence |-> 700, weight |-> 250]>>
        ELSE <<>>)

\* 236-252: the arguments of the Con agent
ConArguments(inp) ==
    (IF inp.spread > 3
     THEN <<[claim |-> "High spread warning", confidence |-> 800, weight |-> 350]>>
     ELSE <<>>)
    \o (IF MentionsResistance(inp.context)
        THEN <<[claim |-> "Near resistance", confidence |-> 700, weight |-> 300]>>
        ELSE <<>>)

RECURSIVE WeightedSum(_)
\* sum(arg.confidence * arg.weight for arg in arguments)
WeightedSum(arguments) ==
    IF arguments = <<>> THEN 0
    ELSE Head(arguments).confidence * Head(arguments).weight
         + WeightedSum(Tail(arguments))

RECURSIVE WeightSum(_)
\* sum(arg.weight for arg in arguments)
WeightSum(arguments) ==
    IF arguments = <<>> THEN 0
    ELSE Head(arguments).weight + WeightSum(Tail(arguments))

ProEmptyConfidence == 500
ConEmptyConfidence == 400

\* 210, 255: avg_conf
AvgConf(arguments, empty) ==
    IF arguments # <<>>
    THEN [num |-> WeightedSum(arguments), den |-> WeightSum(arguments)]
    ELSE [num |-> empty, den |-> 1]

NoAnalysis == [agent_name |-> "-", overall_bias |-> "-", arguments |-> <<>>,
               recommendation |-> "-", confidence_score |-> [num |-> 0, den |-> 1]]

AgentIdle ==
    /\ gpc = "off"
    /\ gin = [agent |-> "pro", open |-> 0, close |-> 0, rsi |-> None, spread |-> 0,
              context |-> <<>>]
    /\ gout = NoAnalysis

AgentInit ==
    /\ gpc = "argue"
    /\ gin \in [agent : StructuredAgents, open : AgentPrices, close : AgentPrices,
                rsi : RsiValues, spread : Spreads, context : TierContexts]
    /\ gout = NoAnalysis

gunch == <<core, jvars, svars, avars, tvars, rvars>>

\* 182, 230: raw_output = await self.argue(market_data, narrative)
GArgue ==
    /\ gpc = "argue"
    /\ gpc' = "structure"
    /\ UNCHANGED <<gin, gout, gunch>>

\* StructuredProAgent.analyze_structured 185-221
GStructurePro ==
    /\ gpc = "structure"
    /\ gin.agent = "pro"
    /\ LET arguments == ProArguments(gin)
           avg_conf == AvgConf(arguments, ProEmptyConfidence)
       IN gout' = [agent_name |-> "Pro Agent", overall_bias |-> "bullish",
                   arguments |-> arguments,
                   recommendation |->
                      IF avg_conf.num > 600 * avg_conf.den THEN "BUY" ELSE "HOLD",
                   confidence_score |-> avg_conf]
    /\ gpc' = "done"
    /\ UNCHANGED <<gin, gunch>>

\* StructuredConAgent.analyze_structured 233-266
GStructureCon ==
    /\ gpc = "structure"
    /\ gin.agent = "con"
    /\ LET arguments == ConArguments(gin)
           avg_conf == AvgConf(arguments, ConEmptyConfidence)
       IN gout' = [agent_name |-> "Con Agent", overall_bias |-> "bearish",
                   arguments |-> arguments,
                   recommendation |->
                      IF avg_conf.num > 600 * avg_conf.den THEN "SELL" ELSE "HOLD",
                   confidence_score |-> avg_conf]
    /\ gpc' = "done"
    /\ UNCHANGED <<gin, gunch>>

(***************************************************************************)
(* Tier1MathEngine.analyze and Tier1Result.should_veto_buy / _sell         *)
(* (core/tier1_math.py).  Moving averages and strengths are held in        *)
(* thousandths, candle highs and lows in whole units.                      *)
(***************************************************************************)
MinCandles == 20
veto_threshold == 700
TrendVetoStrength == 700

Block(p, q) ==
    <<[high |-> 11, low |-> 9], [high |-> 12, low |-> 8], [high |-> p, low |-> q],
      [high |-> 12, low |-> 8], [high |-> 11, low |-> 9]>>

\* higher swing highs and lower swing lows
Rising == Block(14, 7) \o Block(15, 6) \o Block(16, 5) \o Block(17, 4)
\* lower swing highs and higher swing lows
Falling == Block(17, 4) \o Block(16, 5) \o Block(15, 6) \o Block(14, 7)
\* no swing point
Flat == [i \in 1..MinCandles |-> [high |-> 12, low |-> 8]]

CandleSeries ==
    {<<>>, SubSeq(Rising, 1, 1), SubSeq(Rising, 1, 10), SubSeq(Rising, 1, MinCandles - 1),
     Rising, Falling, Flat, Falling \o Block(18, 3)}

FastMAs ==
    {<<>>, <<1000, 1100>>, <<1000, 1000, 1000, 1100, 1200>>,
     <<1000, 1100, 1200, 1300, 1350>>, <<1400, 1300, 1200, 1100, 1050>>,
     <<1400, 1300, 1200, 1100, 1000>>}
SlowMAs ==
    {<<>>, <<1150>>, <<1150, 1150>>, <<1150, 1150, 1150, 1150, 1150>>,
     <<1250, 1250, 1250, 1250, 1250>>, <<1000, 1000, 1000, 1100, 1100>>}
TrendMAs == {<<>>, <<900>>, <<1500>>}

Abs(x) == IF x < 0 THEN -x ELSE x
\* s[-k]
FromEnd(s, k) == s[Len(s) - k + 1]
\* s[-n:]
LastN(s, n) == SubSeq(s, Max(1, Len(s) - n + 1), Len(s))

\* a variant that lets ten candles through
InsufficientBelowTen(candles) == candles = <<>> \/ Len(candles) < 10

\* 63: not candles or len(candles) < 20
Insufficient(candles) == candles = <<>> \/ Len(candles) < MinCandles

\* 63-69
InsufficientResult ==
    [trend_direction |-> "neutral", trend_strength |-> 0, structure_valid |-> FALSE,
     veto_reason |-> "Insufficient data", support_levels |-> "None",
     resistance_levels |-> "None", ma_alignment |-> "None"]

\* 104 (and 196): not ma_fast or not ma_slow or len(ma_fast) < 2
TooFewMAs(ma_fast, ma_slow) == ma_fast = <<>> \/ ma_slow = <<>> \/ Len(ma_fast) < 2

\* 112-126: the branch of _calculate_trend taken
CrossedUp(f, s) == FromEnd(f, 1) > FromEnd(s, 1) /\ FromEnd(f, 2) <= FromEnd(s, 2)
CrossedDown(f, s) == FromEnd(f, 1) < FromEnd(s, 1) /\ FromEnd(f, 2) >= FromEnd(s, 2)

TrendDirection(f, s) ==
    IF TooFewMAs(f, s) THEN "neutral"
    ELSE IF FromEnd(f, 1) > FromEnd(s, 1) THEN "bullish"
    ELSE IF FromEnd(f, 1) < FromEnd(s, 1) THEN "bearish"
    ELSE "neutral"

\* 109, 136-137: ma_slow[-2], ma_slow[-5] on a list too short raise IndexError
TrendRaises(f, s) ==
    /\ ~TooFewMAs(f, s)
    /\ \/ Len(s) < 2
       \/ TrendDirection(f, s) # "neutral" /\ Len(f) >= 5 /\ Len(s) < 5

\* 130-153: _calculate_trend_strength
CalculateTrendStrength(f, s, t, direction) ==
    IF f = <<>> \/ s = <<>> \/ Len(f) < 5 THEN 0
    ELSE LET trend_aligned ==
                 /\ t # <<>>
                 /\ \/ direction = "bullish" /\ FromEnd(f, 1) > FromEnd(t, 1)
                    \/ direction = "bearish" /\ FromEnd(f, 1) < FromEnd(t, 1)
             strength == Min(Abs(FromEnd(f, 1) - FromEnd(f, 5)) * 2, 1000)
         IN IF trend_aligned THEN Min((strength * 13) \div 10, 1000) ELSE strength

\* 102-128: _calculate_trend, the strength
TrendStrength(f, s, t) ==
    LET direction == TrendDirection(f, s)
    IN IF direction = "neutral" THEN 0
       ELSE IF CrossedUp(f, s) \/ CrossedDown(f, s)
       THEN CalculateTrendStrength(f, s, t, direction)
       ELSE 500 + CalculateTrendStrength(f, s, t, direction) \div 2

RECURSIVE SwingHighsFrom(_, _)
\* 167-171: the swing highs at the indices from i on
SwingHighsFrom(h, i) ==
    IF i > Len(h) - 2 THEN <<>>
    ELSE (IF /\ h[i] > h[i - 1] /\ h[i] > h[i - 2]
             /\ h[i] > h[i + 1] /\ h[i] > h[i + 2]
          THEN <<h[i]>> ELSE <<>>) \o SwingHighsFrom(h, i + 1)

RECURSIVE SwingLowsFrom(_, _)
\* 173-176: the swing lows at the indices from i on
SwingLowsFrom(l, i) ==
    IF i > Len(l) - 2 THEN <<>>
    ELSE (IF /\ l[i] < l[i - 1] /\ l[i] < l[i - 2]
             /\ l[i] < l[i + 1] /\ l[i] < l[i + 2]
          THEN <<l[i]>> ELSE <<>>) \o SwingLowsFrom(l, i + 1)

\* 155-190: _analyze_structure
AnalyzeStructure(candles, trend_direction) ==
    IF Len(candles) < 10
    THEN [structure_valid |-> FALSE, support |-> <<>>, resistance |-> <<>>]
    ELSE LET recent == LastN(candles, 20)
             highs == [i \in 1..Len(recent) |-> recent[i].high]
             lows == [i \in 1..Len(recent) |-> recent[i].low]
             swing_highs == SwingHighsFrom(highs, 3)
             swing_lows == SwingLowsFrom(lows, 3)
         IN [structure_valid |->
               IF trend_direction = "bullish" /\ Len(swing_highs) >= 2
               THEN ~(FromEnd(swing_highs, 1) < FromEnd(swing_highs, 2))
               ELSE IF trend_direction = "bearish" /\ Len(swing_lows) >= 2
               THEN ~(FromEnd(swing_lows, 1) > FromEnd(swing_lows, 2))
               ELSE TRUE,
             support |->
               IF swing_lows # <<>>
               THEN SortSeq(LastN(swing_lows, 3), LAMBDA a, b : a < b)
               ELSE <<CHOOSE m \in {lows[i] : i \in 1..Len(lows)} :
                         \A i \in 1..Len(lows) : m <= lows[i]>>,
             resistance |->
               IF swing_highs # <<>>
               THEN SortSeq(LastN(swing_highs, 3), LAMBDA a, b : a > b)
               ELSE <<CHOOSE m \in {highs[i] : i \in 1..Len(highs)} :
                         \A i \in 1..Len(highs) : m >= highs[i]>>]

\* 192-214: _check_ma_alignment
CheckMAAlignment(f, s, t) ==
    IF TooFewMAs(f, s) THEN "mixed"
    ELSE IF CrossedUp(f, s) \/ CrossedDown(f, s) THEN "crossing"
    ELSE IF t # <<>> /\ FromEnd(f, 1) > FromEnd(s, 1) /\ FromEnd(s, 1) > FromEnd(t, 1)
    THEN "aligned_bullish"
    ELSE IF t # <<>> /\ FromEnd(f, 1) < FromEnd(s, 1) /\ FromEnd(s, 1) < FromEnd(t, 1)
    THEN "aligned_bearish"
    ELSE "mixed"

\* a variant in which a strength of exactly 0.7 counts as strong
StrongTrendInclusive(strength) == strength >= TrendVetoStrength

\* 23, 31: self.trend_strength > 0.7
StrongTrend(strength) == strength > TrendVetoStrength

\* 21-27
ShouldVetoBuy(r) ==
    IF r.trend_direction = "bearish" /\ StrongTrend(r.trend_strength)
    THEN [asked |-> TRUE, veto |-> TRUE, reason |-> "VETO: Bearish trend on higher timeframe"]
    ELSE IF ~r.structure_valid
    THEN [asked |-> TRUE, veto |-> TRUE, reason |-> "VETO: Invalid market structure"]
    ELSE [asked |-> TRUE, veto |-> FALSE, reason |-> ""]

\* 29-35
ShouldVetoSell(r) ==
    IF r.trend_direction = "bullish" /\ StrongTrend(r.trend_strength)
    THEN [asked |-> TRUE, veto |-> TRUE, reason |-> "VETO: Bullish trend on higher timeframe"]
    ELSE IF ~r.structure_valid
    THEN [asked |-> TRUE, veto |-> TRUE, reason |-> "VETO: Invalid market structure"]
    ELSE [asked |-> TRUE, veto |-> FALSE, reason |-> ""]

NoTier1Result ==
    [trend_direction |-> "-", trend_strength |-> 0, structure_valid |-> FALSE,
     veto_reason |-> "None", support_levels |-> "None", resistance_levels |-> "None",
     ma_alignment |-> "None"]
NotAsked == [asked |-> FALSE, veto |-> FALSE, reason |-> ""]
NoMarketData == [candles |-> <<>>, ma_fast |-> <<>>, ma_slow |-> <<>>, ma_trend |-> <<>>]

Tier1Idle ==
    /\ tpc = "off"
    /\ tin = NoMarketData
    /\ tres = NoTier1Result
    /\ tveto = [buy |-> NotAsked, sell |-> NotAsked]
    /\ texc = ""

Tier1Init ==
    /\ tpc = "analyze"
    /\ tin \in [candles : CandleSeries, ma_fast : FastMAs, ma_slow : SlowMAs,
                ma_trend : TrendMAs]
    /\ tres = NoTier1Result
    /\ tveto = [buy |-> NotAsked, sell |-> NotAsked]
    /\ texc = ""

\* the Tier1Result values a caller may construct (10-19)
Strengths == {0, 500, 699, 700, 701, 1000}
Tier1Results ==
    [trend_direction : {"bullish", "bearish", "neutral"}, trend_strength : Strengths,
     structure_valid : BOOLEAN, veto_reason : {"None", "Insufficient data"},
     support_levels : {"None"}, resistance_levels : {"None"}, ma_alignment : {"None"}]

VetoInit ==
    /\ tpc = "result"
    /\ tin = NoMarketData
    /\ tres \in Tier1Results
    /\ tveto = [buy |-> NotAsked, sell |-> NotAsked]
    /\ texc = ""

tunch == <<core, jvars, svars, avars, gvars, rvars>>

\* 57-69: the data are read; too few candles end the analysis
TCheckData ==
    /\ tpc = "analyze"
    /\ IF Insufficient(tin.candles)
       THEN tres' = InsufficientResult /\ tpc' = "result"
       ELSE tres' = tres /\ tpc' = "trend"
    /\ UNCHANGED <<tin, tveto, texc, tunch>>

\* 72-74: _calculate_trend
TTrend ==
    /\ tpc = "trend"
    /\ IF TrendRaises(tin.ma_fast, tin.ma_slow)
       THEN /\ tpc' = "raised"
            /\ texc' = "IndexError"
            /\ tres' = tres
       ELSE /\ tpc' = "structure"
            /\ texc' = texc
            /\ tres' = [tres EXCEPT
                  !.trend_direction = TrendDirection(tin.ma_fast, tin.ma_slow),
                  !.trend_strength = TrendStrength(tin.ma_fast, tin.ma_slow, tin.ma_trend)]
    /\ UNCHANGED <<tin, tveto, tunch>>

\* 77-79: _analyze_structure
TStructure ==
    /\ tpc = "structure"
    /\ LET st == AnalyzeStructure(tin.candles, tres.trend_direction)
       IN tres' = [tres EXCEPT !.structure_valid = st.structure_valid,
                               !.support_levels = st.support,
                               !.resistance_levels = st.resistance]
    /\ tpc' = "alignment"
    /\ UNCHANGED <<tin, tveto, texc, tunch>>

\* 82-100: _check_ma_alignment, the veto reason, the result
TFinish ==
    /\ tpc = "alignment"
    /\ tres' = [tres EXCEPT
          !.ma_alignment = CheckMAAlignment(tin.ma_fast, tin.ma_slow, tin.ma_trend),
          !.veto_reason =
             IF tres.trend_strength > veto_threshold /\ tres.trend_direction = "bearish"
             THEN "Strong bearish trend - BUY signals blocked"
             ELSE IF tres.trend_strength > veto_threshold
                     /\ tres.trend_direction = "bullish"
             THEN "Strong bullish trend - SELL signals blocked"
             ELSE "None"]
    /\ tpc' = "result"
    /\ UNCHANGED <<tin, tveto, texc, tunch>>

\* Tier1Result.should_veto_buy on the result
TShouldVetoBuy ==
    /\ tpc = "result"
    /\ ~tveto.buy.asked
    /\ tveto' = [tveto EXCEPT !.buy = ShouldVetoBuy(tres)]
    /\ UNCHANGED <<tpc, tin, tres, texc, tunch>>

\* Tier1Result.should_veto_sell on the result
TShouldVetoSell ==
    /\ tpc = "result"
    /\ ~tveto.sell.asked
    /\ tveto' = [tveto EXCEPT !.sell = ShouldVetoSell(tres)]
    /\ UNCHANGED <<tpc, tin, tres, texc, tunch>>

(***************************************************************************)
(* TheJudge._arbitrate_agents (core/judge.py 323-401) as a frame of its    *)
(* own, one action per stage.                                              *)
(***************************************************************************)
ChartLookups == {"context", "unavailable", "raises"}

NoReply == [kind |-> "ok", sep |-> FALSE, score |-> "", reason |-> <<>>]

ArbitrateIdle ==
    /\ rpc = "off"
    /\ rin = [symbol |-> "", chart |-> "unavailable", reply |-> NoReply]
    /\ rout = NoTier
    /\ rexc = NoRaise

ArbitrateInit ==
    /\ rpc = "chart"
    /\ rin \in [symbol : Symbols, chart : ChartLookups, reply : Replies]
    /\ rout = NoTier
    /\ rexc = NoRaise

runch == <<core, jvars, svars, avars, gvars, tvars>>

\* 329-353: the chart context; without a symbol the chart manager is not asked
RChart ==
    /\ rpc = "chart"
    /\ rpc' = IF rin.symbol # "" /\ rin.chart = "raises" THEN "log_debug" ELSE "call"
    /\ UNCHANGED <<rin, rout, rexc, runch>>

\* 354-355: the handler's logger.debug
RLogDebug ==
    /\ rpc = "log_debug"
    /\ rexc' = LoggerCall.value
    /\ rpc' = "raised"
    /\ UNCHANGED <<rin, rout, runch>>

\* 357-393: the prompt and the resilient provider call, which answers or raises
RCall ==
    /\ rpc = "call"
    /\ rpc' = "parse"
    /\ UNCHANGED <<rin, rout, rexc, runch>>

\* 394-401: the reply is split and converted, or the handler answers
RParse ==
    /\ rpc = "parse"
    /\ rout' = ParseReply(rin.reply)
    /\ rpc' = "returned"
    /\ UNCHANGED <<rin, rexc, runch>>

\* the frames of the pure functions, not entered
PureIdle == SizerIdle /\ ArbIdle /\ AgentIdle /\ Tier1Idle /\ ArbitrateIdle

(***************************************************************************)
(* Specifications                                                          *)
(***************************************************************************)
\* one caller at a time; the constructor and call arguments from ranges
Init ==
    /\ failure_threshold \in 1..MaxThreshold
    /\ success_threshold \in 1..MaxThreshold
    /\ recovery_timeout = RecoveryTimeout
    /\ max_retries \in 0..MaxRetriesArg
    /\ active = {1}
    /\ FreshBreaker /\ FramesInit /\ JudgeIdle /\ PureIdle

Next ==
    \/ \E p \in Callers :
         \/ Start(p) \/ Admit(p) \/ Invoke(p) \/ CompleteOk(p) \/ CompleteFail(p)
         \/ OnSuccessReset(p) \/ OnSuccessLoad(p) \/ OnSuccessStore(p) \/ Return(p)
         \/ OnFailureLoad(p) \/ OnFailureStore(p) \/ OnFailureTrip(p)
         \/ Caught(p) \/ Wake(p) \/ Exhausted(p) \/ Leave(p)
    \/ Reset
    \/ Tick

Spec == Init /\ [][Next]_vars

\* two concurrent callers on the shared breaker
ConcInit ==
    /\ failure_threshold \in {1, 2}
    /\ success_threshold \in {1, 2}
    /\ recovery_timeout = RecoveryTimeout
    /\ max_retries \in {0, 1}
    /\ active = Callers
    /\ FreshBreaker /\ FramesInit /\ JudgeIdle /\ PureIdle

ConcSpec == ConcInit /\ [][Next]_vars

\* one caller on the process-wide instance llm_circuit_breaker (132-136), with
\* call_llm_with_retry's default arguments (142-144) and a provider that fails
\* every time; Tick is the loop's latency
DefaultInit ==
    /\ failure_threshold = 5
    /\ recovery_timeout = 60
    /\ success_threshold = 2
    /\ max_retries = 3
    /\ active = {1}
    /\ FreshBreaker /\ FramesInit /\ JudgeIdle /\ PureIdle

DefaultNext ==
    \/ \E p \in Callers :
         \/ Start(p) \/ Admit(p) \/ Invoke(p) \/ CompleteFail(p)
         \/ OnFailureLoad(p) \/ OnFailureStore(p) \/ OnFailureTrip(p)
         \/ Caught(p) \/ Sleep(p) \/ Exhausted(p) \/ CallAgain(p)
    \/ Tick

DefaultSpec == DefaultInit /\ [][DefaultNext]_vars

\* the process-wide instance llm_circuit_breaker (132-136), untouched
JudgeBreaker ==
    /\ failure_threshold = 5
    /\ recovery_timeout = 60
    /\ success_threshold = 2
    /\ max_retries = 3                 \* judge.py 390
    /\ active = {}
    /\ FreshBreaker

JInit == JudgeBreaker /\ FramesInit /\ JudgeInit /\ PureIdle

JNext ==
    \/ JCooldown \/ JTier1 \/ JRetrieve \/ JNarrative \/ JPro \/ JCon
    \/ JArbitrate \/ JDecide \/ JSizing \/ JAudit \/ JMonitor

JudgeSpec == JInit /\ [][JNext]_vars

\* one _calculate_safe_lot call on arguments, account and mode drawn from sets
SInit == JudgeBreaker /\ FramesInit /\ JudgeIdle /\ SizerInit /\ ArbIdle /\ AgentIdle /\ Tier1Idle /\ ArbitrateIdle

SNext == SResolve \/ SRound \/ SValidate \/ SRiskCheck \/ SClamp \/ SLog \/ SHandler

SizerSpec == SInit /\ [][SNext]_vars

\* one judge_debate call on inputs drawn from sets
AInit == JudgeBreaker /\ FramesInit /\ JudgeIdle /\ SizerIdle /\ ArbInit /\ AgentIdle /\ Tier1Idle /\ ArbitrateIdle

ANext == ADebate \/ AScore

ArbSpec == AInit /\ [][ANext]_vars

\* one analyze_structured call of either agent on inputs drawn from sets
GInit == JudgeBreaker /\ FramesInit /\ JudgeIdle /\ SizerIdle /\ ArbIdle /\ AgentInit /\ Tier1Idle /\ ArbitrateIdle

GNext == GArgue \/ GStructurePro \/ GStructureCon

AgentSpec == GInit /\ [][GNext]_vars

\* one analyze call on market data drawn from sets, then the veto questions
TInit ==
    /\ JudgeBreaker /\ FramesInit /\ JudgeIdle
    /\ SizerIdle /\ ArbIdle /\ AgentIdle /\ Tier1Init /\ ArbitrateIdle

TNext ==
    \/ TCheckData \/ TTrend \/ TStructure \/ TFinish
    \/ TShouldVetoBuy \/ TShouldVetoSell

Tier1Spec == TInit /\ [][TNext]_vars

\* the veto questions on Tier1Result values drawn from sets
VInit ==
    /\ JudgeBreaker /\ FramesInit /\ JudgeIdle
    /\ SizerIdle /\ ArbIdle /\ AgentIdle /\ VetoInit /\ ArbitrateIdle

VNext == TShouldVetoBuy \/ TShouldVetoSell

VetoSpec == VInit /\ [][VNext]_vars

\* one _arbitrate_agents call on a symbol, a chart lookup and a reply drawn from sets
RInit ==
    /\ JudgeBreaker /\ FramesInit /\ JudgeIdle
    /\ SizerIdle /\ ArbIdle /\ AgentIdle /\ Tier1Idle /\ ArbitrateInit

RNext == RChart \/ RLogDebug \/ RCall \/ RParse

ArbitrateSpec == RInit /\ [][RNext]_vars


(***************************************************************************)
(* Properties of the circuit breaker and the retry wrapper                 *)
(***************************************************************************)
\* C1, first half: when the failure that has just been recorded is the
\* failure_threshold-th in a row of a run that began with the breaker CLOSED,
\* the breaker is OPEN and failure_count = failure_threshold.
C1_OpensAtThreshold ==
    \A p \in Callers :
        (pc[p] = "fail_recorded" /\ streakStart = "CLOSED"
         /\ ref.fc = failure_threshold)
        => (cbState = "OPEN" /\ failure_count = failure_threshold)

\* C1, second half: a call that reaches the admission check while the breaker is
\* OPEN and recovery_timeout has not elapsed is rejected with the
\* "Circuit Breaker OPEN" error; the wrapped function is not invoked and the
\* breaker is left as it was.
C1_RejectsWhileOpen ==
    \A p \in Callers :
        (pc[p] = "admit" /\ pc'[p] # "admit" /\ cbState = "OPEN"
         /\ last_failure_time # None /\ now - last_failure_time < recovery_timeout)
        => (pc'[p] = "rejected" /\ exc'[p] = CircuitOpenError
            /\ calls' = calls
            /\ UNCHANGED <<cbState, failure_count, success_count, last_failure_time>>)

\* C1: after exactly failure_threshold consecutive failed calls from CLOSED the
\* breaker is OPEN with failure_count = failure_threshold, and a call made before
\* recovery_timeout has elapsed is rejected without invoking the wrapped function.
C1_OpenAfterThresholdThenReject ==
    [](C1_OpensAtThreshold) /\ [][C1_RejectsWhileOpen]_vars

C1_Witness ==
    \E p \in Callers :
        /\ pc[p] = "rejected"
        /\ exc[p] = CircuitOpenError
        /\ streakStart = "CLOSED"
        /\ failure_threshold = 2
        /\ ref.fc = failure_threshold
        /\ cbState = "OPEN"
        /\ calls[p] = 2
        /\ attempts[p] = 3

\* C2: every failure recorded while the breaker is HALF_OPEN leaves the breaker
\* OPEN with success_count = 0, whatever failure_count and success_count were.
C2_HalfOpenFailureOpens ==
    \A p \in Callers :
        (pc[p] = "fail_recorded" /\ pre[p].state = "HALF_OPEN")
        => (cbState = "OPEN" /\ success_count = 0)

\* C3, admission: from OPEN with recovery_timeout elapsed, the admission check
\* sets HALF_OPEN and only then goes on to invoke the wrapped function.
C3_AdmitsHalfOpen ==
    \A p \in Callers :
        (pc[p] = "admit" /\ pc'[p] # "admit" /\ cbState = "OPEN"
         /\ last_failure_time # None /\ now - last_failure_time >= recovery_timeout)
        => (cbState' = "HALF_OPEN" /\ pc'[p] = "invoke" /\ calls' = calls)

\* C3, successes: a success recorded in HALF_OPEN leaves the breaker HALF_OPEN
\* while fewer than success_threshold successes have been counted, and the
\* success_threshold-th in a row leaves it CLOSED with both counters 0.
C3_SuccessesClose ==
    \A p \in Callers :
        (pc[p] = "succ_recorded" /\ pre[p].state = "HALF_OPEN")
        => IF pre[p].sc + 1 < success_threshold
           THEN cbState = "HALF_OPEN" /\ success_count = pre[p].sc + 1
                /\ failure_count = 0
           ELSE cbState = "CLOSED" /\ failure_count = 0 /\ success_count = 0

\* C3: OPEN, then recovery_timeout elapsed: the next call sets HALF_OPEN before
\* invoking; a success keeps HALF_OPEN (success_threshold > 1); success_threshold
\* consecutive successes give CLOSED with failure_count = 0, success_count = 0.
C3_RecoveryPath ==
    [](C3_SuccessesClose) /\ [][C3_AdmitsHalfOpen]_vars

C3_Witness ==
    \E p \in Callers :
        /\ pc[p] = "succ_recorded"
        /\ pre[p].state = "HALF_OPEN"
        /\ success_threshold = 2
        /\ pre[p].sc = 1
        /\ cbState = "CLOSED"
        /\ last_failure_time # None
        /\ now - last_failure_time >= recovery_timeout

C22_RejectedAttempt ==
    \A p \in Callers :
        /\ (pc[p] = "admit" /\ pc'[p] # "admit" /\ cbState = "OPEN"
            /\ last_failure_time # None /\ now - last_failure_time < recovery_timeout)
           => (pc'[p] = "rejected" /\ calls' = calls
               /\ UNCHANGED <<cbState, failure_count, success_count, last_failure_time>>)
        /\ (pc[p] = "rejected" /\ pc'[p] # "rejected")
           => (/\ pc'[p] = (IF attempt[p] < max_retries THEN "sleeping" ELSE "exhausted")
               /\ calls' = calls
               /\ UNCHANGED <<cbState, failure_count, success_count, last_failure_time>>)

\* C22, the whole call: a call all of whose attempts were rejected has made
\* max_retries + 1 attempts when it ends, never invoked the provider, and ends by
\* raising the aggregated error that carries the breaker's message.
C22_RejectedCall ==
    \A p \in Callers :
        /\ (calls[p] = 0 /\ pc[p] = "sleeping") => attempts[p] <= max_retries
        /\ (calls[p] = 0 /\ pc[p] \in {"exhausted", "raised"})
           => attempts[p] = max_retries + 1
        /\ (calls[p] = 0 /\ pc[p] = "raised")
           => result[p] = [kind |-> "error",
                           value |-> "Circuit Breaker OPEN: LLM calls blocked.",
                           after |-> max_retries + 1]

\* C22: while the breaker stays OPEN inside its recovery window, call_llm_with_retry
\* makes all max_retries + 1 attempts with a sleep between them; each is rejected
\* without invoking the provider or touching the breaker's counters and
\* last_failure_time; the call ends with the aggregated error.
C22_RetriesThroughOpen ==
    [](C22_RejectedCall) /\ [][C22_RejectedAttempt]_vars

\* a call of three attempts, all rejected, the breaker still OPEN in its window
C22_Witness ==
    \E p \in Callers :
        /\ pc[p] = "raised"
        /\ max_retries = 2
        /\ attempts[p] = 3
        /\ calls[p] = 0
        /\ cbState = "OPEN"
        /\ now - last_failure_time < recovery_timeout

\* C23, the reset: once a success met while the breaker was CLOSED has been
\* recorded, failure_count is 0 and the breaker is still CLOSED.
C23_SuccessResets ==
    \A p \in Callers :
        (pc[p] = "succ_recorded" /\ pre[p].state = "CLOSED")
        => (failure_count = 0 /\ cbState = "CLOSED")

\* C23, the opening: the breaker goes to OPEN only in recording a failure, and only
\* when at least failure_threshold failures have been met since the last success
\* (or manual reset).
C23_OpensOnStreak ==
    (cbState # "OPEN" /\ cbState' = "OPEN")
    => /\ ref'.fc >= failure_threshold
       /\ \E p \in Callers : pc[p] = "on_failure_3" /\ pc'[p] = "fail_recorded"

\* C23: a successful call while the breaker is CLOSED resets failure_count to 0,
\* so the breaker opens only when failure_threshold failures occur with no
\* successful call completing between them.
C23_ConsecutiveFailuresOpen ==
    [](C23_SuccessResets) /\ [][C23_OpensOnStreak]_vars

\* a success recorded in CLOSED after two failures that had not opened the breaker
C23_Witness ==
    \E p \in Callers :
        /\ pc[p] = "succ_recorded"
        /\ pre[p].state = "CLOSED"
        /\ pre[p].fc = 2
        /\ failure_threshold = 3
        /\ failure_count = 0
        /\ cbState = "CLOSED"

\* C28: whenever no coroutine is inside a breaker method, whatever calls,
\* outcomes, clock advances and manual resets came before: CLOSED goes with
\* failure_count below failure_threshold, a positive success_count with
\* HALF_OPEN, success_count stays below success_threshold, and OPEN or
\* HALF_OPEN with a last_failure_time that is set.
C28_BreakerInvariants ==
    running = NoCaller
    => /\ cbState = "CLOSED" => failure_count < failure_threshold
       /\ success_count > 0 => cbState = "HALF_OPEN"
       /\ success_count < success_threshold
       /\ cbState \in {"OPEN", "HALF_OPEN"} => last_failure_time # None

C28_Witness ==
    /\ running = NoCaller
    /\ cbState = "HALF_OPEN"
    /\ success_count = 1
    /\ failure_count = 0
    /\ \E p \in Callers : pc[p] = "awaiting"
    /\ \E p \in Callers : pc[p] = "returned" /\ wins[p] > 0

\* C29: with several calls in flight, a success is counted towards closing the
\* breaker, and closes it, only if its call was admitted after the breaker had
\* entered HALF_OPEN: the late success of a call admitted while the breaker
\* was still CLOSED neither raises success_count nor closes it.
C29_CountsOnlyProbes ==
    [][(/\ running # NoCaller
        /\ \/ success_count' = success_count + 1
           \/ cbState = "HALF_OPEN" /\ cbState' = "CLOSED")
       => admitted[running] = "HALF_OPEN"]_vars

\* C30: on the fresh breaker with the defaults and a provider that always
\* fails, the caller's first call makes four attempts, all invoking the
\* provider, and leaves the breaker CLOSED with failure_count 4; of the second
\* call's four attempts the first invokes the provider and opens the breaker
\* and the other three are rejected: five invocations in all.
C30_FiveInvocations ==
    /\ pc[1] = "raised" => attempts[1] % (max_retries + 1) = 0
    /\ (pc[1] = "raised" /\ attempts[1] = 4)
       => calls[1] = 4 /\ cbState = "CLOSED" /\ failure_count = 4
    /\ (pc[1] = "raised" /\ attempts[1] = 8)
       => calls[1] = 5 /\ cbState = "OPEN" /\ failure_count = 5
    /\ attempts[1] \in 6..8
       => pc[1] \notin {"invoke", "awaiting", "on_failure_1", "on_failure_2",
                        "on_failure_3", "fail_recorded"}
    /\ attempts[1] <= 8 => calls[1] <= 5

C30_Witness ==
    /\ pc[1] = "raised"
    /\ attempts[1] = 8
    /\ calls[1] = 5
    /\ cbState = "OPEN"
    /\ now - last_failure_time >= 10

(***************************************************************************)
(* Properties of TheJudge.evaluate                                         *)
(***************************************************************************)
\* C6: evaluate never raises once context retrieval, the debate, arbitration or
\* sizing has been entered: a failure there yields a HOLD signal with lot 0.
C6_DegradesToHold ==
    (jpc = "raised" =>
        jran \cap {"rag", "narrative", "pro", "con", "llm", "sizing"} = {})
    /\ (jpc = "returned" =>
          jsignal.action \in {"BUY", "SELL", "HOLD", "STRONG_BUY", "STRONG_SELL"})

\* C7: with the last trade younger than cooldown_minutes, evaluate answers HOLD,
\* lot 0, "COOLDOWN ACTIVE" at once, having invoked nothing but the cooldown store.
C7_CooldownShortCircuits ==
    (jpc # "cooldown" /\ jin.last_trade.status = "at"
     /\ jin.last_trade.elapsed < CooldownMinutes * 60)
    => /\ jpc = "returned"
       /\ jsignal.action = "HOLD"
       /\ jsignal.lot_size = 0
       /\ Contains(jsignal.reason, "COOLDOWN") /\ Contains(jsignal.reason, "ACTIVE:")
       /\ jran = {"db"}

C7_Witness ==
    /\ jpc = "returned"
    /\ jin.last_trade = [status |-> "at", elapsed |-> 300]
    /\ jsignal.action = "HOLD"
    /\ jsignal.reason = <<"COOLDOWN", "ACTIVE:", "10m", "remaining">>
    /\ jran = {"db"}

\* C24: with cooldown_minutes 15 and the last trade 5 minutes before the
\* evaluation, the HOLD reason reads "10m remaining": the cooldown minus the
\* minutes elapsed.
C24_TenMinutesRemaining ==
    (jpc = "returned" /\ jin.last_trade = [status |-> "at", elapsed |-> 5 * 60])
    => /\ jsignal.action = "HOLD"
       /\ Contains(jsignal.reason, "10m")
       /\ Contains(jsignal.reason, "remaining")

\* C26: evaluate returns BUY or HOLD and nothing else; it returns BUY exactly
\* when no cooldown applied, Tier 1 did not veto and tier1 x 0.30 + tier3 x 0.70
\* reached 0.65; every HOLD it returns has lot_size 0, sl 0 and tp 0.
C26_BuyIffThreshold ==
    LET final == FinalScore(jt1.score, jt3.score)
        reached == /\ "llm" \in jran
                   /\ jt1.score # Veto
                   /\ final # NaN
                   /\ final >= EXECUTION_THRESHOLD
    IN /\ jpc = "returned"
          => /\ jsignal.action \in {"BUY", "HOLD"}
             /\ jsignal.action = "BUY" <=> reached
             /\ jsignal.action = "HOLD"
                => jsignal.lot_size = 0 /\ jsignal.sl = 0 /\ jsignal.tp = 0
       /\ (jpc \in {"returned", "raised"} /\ reached)
          => jpc = "returned" /\ jsignal.action = "BUY"

\* C27: a score that _evaluate_tier_1 computes from chart data lies between -0.5
\* and 1.0, so the "Strong Bearish Veto" branch (score below -0.7) is never
\* taken; the veto score -1 comes only from the legacy fallback, with both
\* moving averages given and ma_fast not above ma_slow.
C27_ChartScoreNeverVetoes ==
    ("tier1" \in jran /\ jt1.reason # <<>>)
    => /\ jt1.reason[1] = "Tier" => -500 <= jt1.score /\ jt1.score <= 1000
       /\ jt1.reason[1] # "Strong"
       /\ jt1.score = Veto
          => /\ jt1.reason = <<"Bearish", "Structure", "(Legacy)">>
             /\ jin.ma_fast # 0 /\ jin.ma_slow # 0
             /\ ~(jin.ma_fast > jin.ma_slow)

C27_Witness ==
    /\ "rag" \in jran
    /\ jt1 = [score |-> -500,
              reason |-> <<"Tier", "1:", "Trend:", "strong_bearish", "RSI", "Overbought",
                           "Price", "near", "upper", "BB", "Near", "resistance">>]

\* C8: on a Tier-1 veto evaluate has run retrieval, the debate and arbitration
\* before it answers HOLD with the veto reason and the debate score times 0.3.
C8_VetoStillDebates ==
    (jpc = "returned" /\ jt1.score = Veto)
    => /\ {"rag", "pro", "con", "llm"} \subseteq jran
       /\ jsignal.action = "HOLD"
       /\ Contains(jsignal.reason, "Veto:")
       /\ jsignal.confidence_score = (jt3.score * 300) \div 1000

\* C9: whenever Tier 1 yields the veto score, evaluate returns HOLD with lot 0
\* and a reason containing "Bearish"; the debate and arbitration have no say.
C9_BearishVetoHolds ==
    (jt1.score = Veto /\ jpc \notin {"cooldown", "tier1"})
    => /\ jpc = "returned"
       /\ jsignal.action = "HOLD"
       /\ jsignal.lot_size = 0
       /\ Contains(jsignal.reason, "Bearish")

C9_Witness ==
    /\ jpc = "returned"
    /\ jt1.score = Veto
    /\ jin.ma_fast = 1 /\ jin.ma_slow = 2
    /\ jsignal.action = "HOLD"
    /\ jsignal.reason = <<"Tier", "1", "Veto:", "Bearish", "Structure", "(Legacy)">>

\* C10: every returned signal has an action of the five, lot_size >= 0 and
\* confidence_score in [0, 1] (here already for provider scores within [0, 1]).
C10_SignalInRange ==
    (jpc = "returned" /\ 0 <= jt3.score /\ jt3.score <= 1000)
    => /\ jsignal.action \in {"BUY", "SELL", "HOLD", "STRONG_BUY", "STRONG_SELL"}
       /\ jsignal.lot_size >= 0
       /\ 0 <= jsignal.confidence_score /\ jsignal.confidence_score <= 1000


\* C21: a failure of the audit sink or of the monitor recording never changes or
\* prevents the signal evaluate returns: once the decision is made, evaluate
\* returns the very signal it returns when they succeed.  (The notification is
\* sent on the BUY path only, after sizing.)
C21_SinkFailuresHarmless ==
    ("audit" \in jran /\ jpc \in {"returned", "raised"})
    => /\ jpc = "returned"
       /\ jsignal = CreateSignal("HOLD", 0,
                        <<"Score", "<", "0.65", "|", "Judge:">> \o jt3.reason,
                        0, 0, FinalScore(jt1.score, jt3.score))

\* the audit insert and the monitor's files both failed, HOLD is returned
C21_Witness ==
    /\ jpc = "returned"
    /\ {"audit_failed", "monitor_failed"} \subseteq jran
    /\ jsignal.action = "HOLD"
    /\ jsignal.confidence_score = FinalScore(jt1.score, jt3.score)


(***************************************************************************)
(* Properties of TheJudge._calculate_safe_lot                              *)
(***************************************************************************)
\* C11: whenever the lot rounded from the risk budget is below min_lot and
\* min_lot x priceDiff x pipValue / balance exceeds the mode's max_daily_risk,
\* _calculate_safe_lot is on its abort path (return 0): it neither goes on to
\* clamp and report a lot, nor raises.
C11_AbortsOnExcessRisk ==
    (/\ spc \notin {"off", "enter", "round"}
     /\ sin.diff # 0
     /\ sin.account.is_micro = FALSE
     /\ StepsDown(sin, SizerStepLot(sin)) * SizerStepLot(sin) < SizerMinLot(sin)
     /\ MinLotRiskExceeds(sin))
    => spc \notin {"clamp", "log_result", "raised"}

\* C12: every nonzero lot that _calculate_safe_lot settles on risks no more than
\* the risk-per-trade fraction of the balance (give or take one lot step) and no
\* more than MAX_RISK_PERCENT of it: lot x |entry - stop| x pipValue <= 5% x balance.
C12_RiskWithinBudget ==
    (spc = "log_result" /\ sresult.lot > 0)
    => /\ sresult.lot <= Affordable(sin, SizerRiskPercent(sin), 1)
                            + Max(SizerStepLot(sin), 10)
       /\ sresult.lot <= Affordable(sin, MAX_RISK_PERCENT, 1)

\* C13: every lot that _calculate_safe_lot settles on without aborting lies in
\* [min_lot, max_lot], is a whole multiple of 0.01, and was obtained by rounding
\* toward zero: it is no larger than the unrounded lot (or min_lot, when floored).
C13_LotOnGridRoundedDown ==
    spc = "log_result"
    => /\ SizerMinLot(sin) <= sresult.lot
       /\ sresult.lot <= GetRiskSettings(sin.account, sin.mode).max_lot
       /\ sresult.lot % 10 = 0
       /\ ~sresult.inexact
       /\ sresult.lot <= Max(SizerMinLot(sin), Affordable(sin, SizerRiskPercent(sin), 1))

\* C14: balance 10,000, mode safe, entry 1.1000, stop 1.0950, EURUSD, a normal
\* account with lot step 0.01 and bounds [0.01, 100]: the risk amount is 100 and
\* the lot the sizer settles on is 0.20.
C14_ScenarioA ==
    (/\ sin.balance = 10000 /\ sin.mode = "safe" /\ sin.diff = 50
     /\ sin.symbol = "EURUSD" /\ sin.account = NormalAccount)
    => /\ (sin.balance * SizerRiskPercent(sin)) \div 10000 = 100
       /\ EstimatePipValue(sin.symbol) = 100
       /\ spc \in {"log_result", "handler", "raised"} => sresult.lot = 200

\* C25: an error raised by a sizing step is caught by _calculate_safe_lot, which
\* then returns min_lot: the error never leaves the function.
C25_FallsBackToMinLot ==
    sexc # ""
    => \/ spc = "handler"
       \/ spc = "returned" /\ sresult.lot = SizerMinLot(sin)

(***************************************************************************)
(* Properties of Arbitrator.judge_debate                                   *)
(***************************************************************************)
\* C15: for every input judge_debate gives what the reference formula gives in
\* exact arithmetic: winner PRO / CON when pro - con is above 0.15 / below -0.15
\* (debate score the winner's), else NEUTRAL with the mean; under a veto HOLD and
\* debate score x 0.3; otherwise tier1 x 0.30 + debate x 0.70, with BUY / SELL for
\* PRO / CON (STRONG_ from 0.8) and HOLD for NEUTRAL or a final score below 0.65.
C15_EqualsReference ==
    apc = "done" =>
      LET diff == ain.pro - ain.con
          winner == IF diff > 150 THEN "PRO" ELSE IF diff < -150 THEN "CON" ELSE "NEUTRAL"
          debate == IF winner = "PRO" THEN ain.pro
                    ELSE IF winner = "CON" THEN ain.con
                    ELSE (ain.pro + ain.con) \div 2
          final == IF ain.veto THEN debate * 300 ELSE ain.tier1 * 300 + debate * 700
          action == IF ain.veto \/ winner = "NEUTRAL" \/ final < 650000 THEN "HOLD"
                    ELSE IF winner = "PRO"
                         THEN (IF final >= 800000 THEN "STRONG_BUY" ELSE "BUY")
                         ELSE (IF final >= 800000 THEN "STRONG_SELL" ELSE "SELL")
      IN /\ aout.debate_winner = winner
         /\ aout.debate_score = debate
         /\ aout.final_score = final
         /\ aout.action = action

(***************************************************************************)
(* Properties of the structured agents                                     *)
(***************************************************************************)
\* C16: for the Pro and the Con agent alike, the confidence_score of the analysis
\* returned is the sum of confidence x weight over its arguments divided by the
\* sum of their weights, and exactly 0.5 when it has no arguments.
C16_WeightedMeanOrHalf ==
    gpc = "done" =>
      IF gout.arguments = <<>>
      THEN gout.confidence_score.num = 500 * gout.confidence_score.den
      ELSE gout.confidence_score.num * WeightSum(gout.arguments)
             = gout.confidence_score.den * WeightedSum(gout.arguments)

(***************************************************************************)
(* Properties of Tier1MathEngine.analyze and of the Tier1Result vetoes     *)
(***************************************************************************)
\* C17: with fewer than 20 candles (none included) analyze returns direction
\* neutral, strength 0.0, structure_valid false and the reason 'Insufficient data',
\* whatever moving averages are supplied.
C17_InsufficientData ==
    (tpc # "analyze" /\ Len(tin.candles) < MinCandles)
    => /\ tpc = "result"
       /\ tres.trend_direction = "neutral"
       /\ tres.trend_strength = 0
       /\ tres.structure_valid = FALSE
       /\ tres.veto_reason = "Insufficient data"

\* nineteen candles and moving averages that show a strong bearish trend
C17_Witness ==
    /\ tpc = "result"
    /\ Len(tin.candles) = MinCandles - 1
    /\ tin.ma_fast = <<1400, 1300, 1200, 1100, 1000>>
    /\ tin.ma_slow = <<1150, 1150, 1150, 1150, 1150>>
    /\ tin.ma_trend = <<1500>>
    /\ tres.veto_reason = "Insufficient data"

\* C18: for every Tier1Result should_veto_buy() answers veto iff (direction bearish
\* and strength > 0.7) or structure_valid is false, and should_veto_sell() iff
\* (direction bullish and strength > 0.7) or structure_valid is false; a strength
\* of exactly 0.7 is not a trend veto.
C18_VetoIff ==
    /\ tveto.buy.asked =>
         (tveto.buy.veto <=>
            \/ tres.trend_direction = "bearish" /\ tres.trend_strength > 700
            \/ ~tres.structure_valid)
    /\ tveto.sell.asked =>
         (tveto.sell.veto <=>
            \/ tres.trend_direction = "bullish" /\ tres.trend_strength > 700
            \/ ~tres.structure_valid)

\* a bearish result of strength exactly 0.7 with a valid structure, not vetoed
C18_Witness ==
    /\ tveto.buy.asked /\ tveto.sell.asked
    /\ tres.trend_direction = "bearish"
    /\ tres.trend_strength = 700
    /\ tres.structure_valid
    /\ ~tveto.buy.veto /\ ~tveto.sell.veto

\* C19: the result analyze returns for insufficient data is not a veto: neither
\* should_veto_buy() nor should_veto_sell() answers veto for it.
C19_InsufficientNoVeto ==
    (tpc = "result" /\ Len(tin.candles) < MinCandles)
    => ~tveto.buy.veto /\ ~tveto.sell.veto

(***************************************************************************)
(* Properties of TheJudge._arbitrate_agents                                *)
(***************************************************************************)
\* C20: _arbitrate_agents never raises; when the reply has no '|' or its score
\* part is not a number, or when the resilient call fails, it returns the neutral
\* score 0.5, and for such a reply the reason is the raw text truncated.
C20_NeverRaisesNeutralFallback ==
    /\ rpc # "raised"
    /\ rpc = "returned" =>
         LET reply == rin.reply
             number == /\ reply.sep
                       /\ DecimalOf(reply.score).kind = "ok"
                       /\ DecimalOf(reply.score).value # NaN
             raw == IF reply.sep THEN <<reply.score, "|">> \o reply.reason
                    ELSE reply.reason
         IN /\ reply.kind = "raise" => rout.score = 500
            /\ (reply.kind = "ok" /\ ~number) =>
                 /\ rout.score = 500
                 /\ rout.reason = SubSeq(raw, 1, Min(Len(raw), 50))

====
